---- MODULE Spec2Model ----
(***************************************************************************)
(* Model of the transactional multi-tool execution engine and of the       *)
(* predicate-composing statement builders of the chatbot API.              *)
(*                                                                         *)
(*   Spec      : execute_tools_sequentially, one batch on one session      *)
(*   SpecBuild : the four statement builders applied to bounded arguments  *)
(***************************************************************************)
EXTENDS Integers, Sequences, FiniteSets, TLC

VARIABLES
    tool_calls,        \* the batch: sequence of tool names (tool_call.name)
    pc,                \* position inside execute_tools_sequentially
    txn,               \* state of the transaction opened by db.begin()
    idx,               \* 1-based position of the for loop in tool_calls
    inflight,          \* positions whose tool_func has been awaited and not yet returned
    all_tool_results,  \* the dict all_tool_results, as a function on its keys
    outcome,           \* what the caller of execute_tools_sequentially receives
    begins,            \* number of db.begin() calls
    commits,           \* number of commits of the transaction
    rollbacks,         \* number of rollbacks of the transaction
    tool_log,          \* positions whose tool function was called, in call order
    fmt_log,           \* positions whose formatter was called, in call order
    failed_at,         \* position whose tool function raised, 0 when none
    fmt_raised,        \* positions whose formatter raised
    built_tool,        \* SpecBuild: name of the statement builder applied, "" before
    args,              \* SpecBuild: keyword arguments given to the builder
    field_filters,     \* SpecBuild: the builder's local per-field filter values
    stmt,              \* SpecBuild: the Select statement the builder returned
    fmt_tool,          \* SpecResults: the tool whose entry point or formatter ran, "" before
    fmt_input,         \* SpecResults: the argument it was given
    fmt_output,        \* SpecResults: what it returned, or the exception it raised
    db_executes,       \* SpecResults: number of db.execute calls on the session
    norm_input,        \* SpecText: the argument of normalize_text
    norm_output,       \* SpecText: normalize_text(norm_input)
    norm_again,        \* SpecText: normalize_text applied to norm_output
    redis_list,        \* the Redis list stored under the session's history key
    redis_ttl,         \* the expiry set on the key in seconds, 0 when none
    pipe,              \* per caller of add_chat_turn: the commands queued in its pipeline
    mem_pc,            \* per caller of add_chat_turn: its position in the call
    turn_of,           \* per caller of add_chat_turn: the turn it is storing
    turn_counter,      \* number of add_chat_turn calls made so far
    appended,          \* every entry appended to the list, in append order
    live_from,         \* number of appended entries that an expiry of the key deleted
    history_read,      \* what the last get_chat_history call returned
    chat_pc,           \* position inside process_chat_message
    chat_args,         \* its arguments user_message and session_id
    session_id,        \* its local session_id
    history,           \* its local history
    decision,          \* search_for_tools_response
    tool_results,      \* the map given to the response synthesizer
    bot_reply,         \* its local bot_reply
    chat_result,       \* what the caller of process_chat_message receives
    call_log,          \* the collaborators called by process_chat_message, in call order
    load_failed,       \* the history store failed while loading
    save_failed,       \* the history store failed while saving
    stored_before      \* the session's list when process_chat_message was called

vars == <<tool_calls, pc, txn, idx, inflight, all_tool_results, outcome,
          begins, commits, rollbacks, tool_log, fmt_log, failed_at,
          fmt_raised, built_tool, args, field_filters, stmt,
          fmt_tool, fmt_input, fmt_output, db_executes,
          norm_input, norm_output, norm_again,
          redis_list, redis_ttl, pipe, mem_pc, turn_of, turn_counter, appended,
          live_from, history_read,
          chat_pc, chat_args, session_id, history, decision, tool_results,
          bot_reply, chat_result, call_log, load_failed, save_failed,
          stored_before>>

execVars == <<tool_calls, pc, txn, idx, inflight, all_tool_results, outcome,
              begins, commits, rollbacks, tool_log, fmt_log, failed_at,
              fmt_raised>>

buildVars == <<built_tool, args, field_filters, stmt>>

resultVars == <<fmt_tool, fmt_input, fmt_output, db_executes>>

textVars == <<norm_input, norm_output, norm_again>>

memVars == <<redis_list, redis_ttl, pipe, mem_pc, turn_of, turn_counter, appended,
            live_from, history_read>>

chatVars == <<chat_pc, chat_args, session_id, history, decision, tool_results,
             bot_reply, chat_result, call_log, load_failed, save_failed,
             stored_before>>

\* the variables execute_tools_sequentially leaves alone
nonExecVars == <<buildVars, resultVars, textVars, memVars, chatVars>>

\* the variables the statement builders leave alone
nonBuildVars == <<execVars, resultVars, textVars, memVars, chatVars>>

\* the variables the formatters and the tool entry points leave alone
nonResultVars == <<execVars, buildVars, textVars, memVars, chatVars>>

\* the variables normalize_text leaves alone
nonTextVars == <<execVars, buildVars, resultVars, memVars, chatVars>>

\* the variables the history store leaves alone
nonMemoryVars == <<execVars, buildVars, resultVars, textVars, chatVars>>

----------------------------------------------------------------------------
(* Bounds *)

MaxBatch == 3

----------------------------------------------------------------------------
(* Tool registry and formatter table *)

TOOL_REGISTRY == {"cinemas", "performances", "outages", "hospital_shifts", "history"}

TOOL_FORMATTERS == {"outages", "performances", "hospital_shifts", "cinemas"}

\* a tool name that has no registry entry
UnregisteredTool == "unknown_tool"

ToolNames == TOOL_REGISTRY \cup {UnregisteredTool}

\* run_cinemas, run_performances, run_outages, run_hospital_shifts await
\* db.execute, which may raise; run_history reads a constant and catches.
DbTools == {"cinemas", "performances", "outages", "hospital_shifts"}

Batches == UNION {[1..n -> ToolNames] : n \in 0..MaxBatch}

EmptyMap == [n \in {} |-> 0]

NoOutcome == [kind |-> "pending"]

----------------------------------------------------------------------------
(* execute_tools_sequentially *)

ExecInit ==
    /\ tool_calls \in Batches
    /\ pc = "start"
    /\ txn = "Idle"
    /\ idx = 1
    /\ inflight = {}
    /\ all_tool_results = EmptyMap
    /\ outcome = NoOutcome
    /\ begins = 0
    /\ commits = 0
    /\ rollbacks = 0
    /\ tool_log = <<>>
    /\ fmt_log = <<>>
    /\ failed_at = 0
    /\ fmt_raised = {}

\* variant: a key that is already in the map keeps its first value
SetResultKeepFirst(map, key, value) ==
    [k \in (DOMAIN map) \cup {key} |-> IF k \in DOMAIN map THEN map[k] ELSE value]

\* all_tool_results[key] = value
SetResult(map, key, value) ==
    [k \in (DOMAIN map) \cup {key} |-> IF k = key THEN value ELSE map[k]]

\* async with db.begin(): entering the context manager
Begin ==
    /\ pc = "start"
    /\ pc' = "loop"
    /\ txn' = "InTransaction"
    /\ begins' = begins + 1
    /\ UNCHANGED <<tool_calls, idx, inflight, all_tool_results, outcome,
                   commits, rollbacks, tool_log, fmt_log, failed_at, fmt_raised>>
    /\ UNCHANGED nonExecVars

\* variant: a missing tool is treated like an execution failure
MissingToolAborts ==
    /\ pc = "loop"
    /\ idx <= Len(tool_calls)
    /\ tool_calls[idx] \notin TOOL_REGISTRY
    /\ all_tool_results' = SetResult(all_tool_results, tool_calls[idx],
                                     [kind |-> "error", msg |-> "not available", by |-> idx])
    /\ txn' = "RolledBack"
    /\ rollbacks' = rollbacks + 1
    /\ outcome' = [kind |-> "exception"]
    /\ pc' = "done"
    /\ UNCHANGED <<tool_calls, idx, inflight, begins, commits, tool_log,
                   fmt_log, failed_at, fmt_raised>>
    /\ UNCHANGED nonExecVars

\* tool_func = TOOL_REGISTRY.get(tool_name); if not tool_func: record, continue
MissingTool ==
    /\ pc = "loop"
    /\ idx <= Len(tool_calls)
    /\ tool_calls[idx] \notin TOOL_REGISTRY
    /\ all_tool_results' = SetResult(all_tool_results, tool_calls[idx],
                                     [kind |-> "error", msg |-> "not available", by |-> idx])
    /\ idx' = idx + 1
    /\ UNCHANGED <<tool_calls, pc, txn, inflight, outcome, begins, commits,
                   rollbacks, tool_log, fmt_log, failed_at, fmt_raised>>
    /\ UNCHANGED nonExecVars

\* variant: the call is issued without awaiting it before the loop goes on
CallToolNoAwait ==
    /\ pc = "loop"
    /\ idx <= Len(tool_calls)
    /\ tool_calls[idx] \in TOOL_REGISTRY
    /\ inflight' = inflight \cup {idx}
    /\ tool_log' = Append(tool_log, idx)
    /\ idx' = idx + 1
    /\ UNCHANGED <<tool_calls, pc, txn, all_tool_results, outcome, begins,
                   commits, rollbacks, fmt_log, failed_at, fmt_raised>>
    /\ UNCHANGED nonExecVars

\* raw_results = await tool_func(params=tool_params, db=db): the call is issued
CallTool ==
    /\ pc = "loop"
    /\ idx <= Len(tool_calls)
    /\ tool_calls[idx] \in TOOL_REGISTRY
    /\ pc' = "await_tool"
    /\ inflight' = inflight \cup {idx}
    /\ tool_log' = Append(tool_log, idx)
    /\ UNCHANGED <<tool_calls, txn, idx, all_tool_results, outcome, begins,
                   commits, rollbacks, fmt_log, failed_at, fmt_raised>>
    /\ UNCHANGED nonExecVars

\* variant: on a formatting failure the raw rows are stored
ToolReturnsStoresRaw(formatterRaises) ==
    /\ pc = "await_tool"
    /\ inflight' = inflight \ {idx}
    /\ IF tool_calls[idx] \in TOOL_FORMATTERS
         THEN /\ fmt_log' = Append(fmt_log, idx)
              /\ all_tool_results' = SetResult(all_tool_results, tool_calls[idx],
                    IF formatterRaises
                      THEN [kind |-> "raw", msg |-> "", by |-> idx]
                      ELSE [kind |-> "formatted", msg |-> "", by |-> idx])
         ELSE /\ formatterRaises = FALSE
              /\ fmt_log' = fmt_log
              /\ all_tool_results' = SetResult(all_tool_results, tool_calls[idx],
                    [kind |-> "raw", msg |-> "", by |-> idx])
    /\ fmt_raised' = IF formatterRaises THEN fmt_raised \cup {idx} ELSE fmt_raised
    /\ idx' = idx + 1
    /\ pc' = "loop"
    /\ UNCHANGED <<tool_calls, txn, outcome, begins, commits, rollbacks,
                   tool_log, failed_at>>
    /\ UNCHANGED nonExecVars

\* the await returns rows; the formatter, when there is one, is applied and
\* either returns text or raises; the result is stored under the tool name
ToolReturns(formatterRaises) ==
    /\ pc = "await_tool"
    /\ inflight' = inflight \ {idx}
    /\ IF tool_calls[idx] \in TOOL_FORMATTERS
         THEN /\ fmt_log' = Append(fmt_log, idx)
              /\ all_tool_results' = SetResult(all_tool_results, tool_calls[idx],
                    IF formatterRaises
                      THEN [kind |-> "error", msg |-> "Failed to format", by |-> idx]
                      ELSE [kind |-> "formatted", msg |-> "", by |-> idx])
         ELSE /\ formatterRaises = FALSE
              /\ fmt_log' = fmt_log
              /\ all_tool_results' = SetResult(all_tool_results, tool_calls[idx],
                    [kind |-> "raw", msg |-> "", by |-> idx])
    /\ fmt_raised' = IF formatterRaises THEN fmt_raised \cup {idx} ELSE fmt_raised
    /\ idx' = idx + 1
    /\ pc' = "loop"
    /\ UNCHANGED <<tool_calls, txn, outcome, begins, commits, rollbacks,
                   tool_log, failed_at>>
    /\ UNCHANGED nonExecVars

ToolSucceeds == \E formatterRaises \in BOOLEAN : ToolReturns(formatterRaises)

\* variant: the error is recorded but not re-raised, the loop goes on
ToolRaisesSwallowed ==
    /\ pc = "await_tool"
    /\ tool_calls[idx] \in DbTools
    /\ inflight' = inflight \ {idx}
    /\ all_tool_results' = SetResult(all_tool_results, tool_calls[idx],
                                     [kind |-> "error", msg |-> "Failed to execute", by |-> idx])
    /\ failed_at' = idx
    /\ idx' = idx + 1
    /\ pc' = "loop"
    /\ UNCHANGED <<tool_calls, txn, outcome, begins, commits, rollbacks,
                   tool_log, fmt_log, fmt_raised>>
    /\ UNCHANGED nonExecVars

\* variant: the exception stops the loop after the next invocation was started
ToolRaisesLate ==
    /\ pc = "await_tool"
    /\ tool_calls[idx] \in DbTools
    /\ inflight' = inflight \ {idx}
    /\ all_tool_results' = SetResult(all_tool_results, tool_calls[idx],
                                     [kind |-> "error", msg |-> "Failed to execute", by |-> idx])
    /\ failed_at' = idx
    /\ tool_log' = IF idx < Len(tool_calls) THEN Append(tool_log, idx + 1) ELSE tool_log
    /\ txn' = "RolledBack"
    /\ rollbacks' = rollbacks + 1
    /\ outcome' = [kind |-> "exception"]
    /\ pc' = "done"
    /\ UNCHANGED <<tool_calls, idx, begins, commits, fmt_log, fmt_raised>>
    /\ UNCHANGED nonExecVars

\* variant: the transaction is rolled back but the partial map is returned
ToolRaisesReturnsPartial ==
    /\ pc = "await_tool"
    /\ tool_calls[idx] \in DbTools
    /\ inflight' = inflight \ {idx}
    /\ all_tool_results' = SetResult(all_tool_results, tool_calls[idx],
                                     [kind |-> "error", msg |-> "Failed to execute", by |-> idx])
    /\ failed_at' = idx
    /\ txn' = "RolledBack"
    /\ rollbacks' = rollbacks + 1
    /\ outcome' = [kind |-> "map", map |-> all_tool_results']
    /\ pc' = "done"
    /\ UNCHANGED <<tool_calls, idx, begins, commits, tool_log, fmt_log, fmt_raised>>
    /\ UNCHANGED nonExecVars

\* the await raises: except Exception as e: record the error, raise e; the
\* exception leaves the async with block, which rolls the transaction back,
\* and propagates to the caller
ToolRaises ==
    /\ pc = "await_tool"
    /\ tool_calls[idx] \in DbTools
    /\ inflight' = inflight \ {idx}
    /\ all_tool_results' = SetResult(all_tool_results, tool_calls[idx],
                                     [kind |-> "error", msg |-> "Failed to execute", by |-> idx])
    /\ failed_at' = idx
    /\ txn' = "RolledBack"
    /\ rollbacks' = rollbacks + 1
    /\ outcome' = [kind |-> "exception"]
    /\ pc' = "done"
    /\ UNCHANGED <<tool_calls, idx, begins, commits, tool_log, fmt_log, fmt_raised>>
    /\ UNCHANGED nonExecVars

\* the for loop is exhausted: the async with block exits normally and commits,
\* then return all_tool_results
CommitAndReturn ==
    /\ pc = "loop"
    /\ idx > Len(tool_calls)
    /\ txn' = "Committed"
    /\ commits' = commits + 1
    /\ outcome' = [kind |-> "map", map |-> all_tool_results]
    /\ pc' = "done"
    /\ UNCHANGED <<tool_calls, idx, inflight, all_tool_results, begins,
                   rollbacks, tool_log, fmt_log, failed_at, fmt_raised>>
    /\ UNCHANGED nonExecVars

----------------------------------------------------------------------------
(* Text: strings of the filter arguments are sequences of characters.       *)
(* Characters are named: "B" and "b" Latin letters, "alpha" and             *)
(* "alpha_tonos" Greek alpha without and with the precomposed accent,       *)
(* "tonos" the combining acute accent (category Mn), "sigma" and            *)
(* "sigma_final" the two lowercase sigmas, "!" and "*" ASCII punctuation,   *)
(* " " the space.                                                           *)

Chars == {"B", "b", "alpha", "alpha_tonos", "tonos", "sigma", "sigma_final",
          "!", "*", " "}

\* concatenation of a sequence of sequences
RECURSIVE Flatten(_)
Flatten(ss) == IF ss = <<>> THEN <<>> ELSE Head(ss) \o Flatten(Tail(ss))

\* unicodedata.normalize("NFC", text): a base letter followed by the
\* combining accent becomes the precomposed letter where one exists
RECURSIVE NFC(_)
NFC(t) ==
    IF Len(t) < 2 THEN t
    ELSE IF t[1] = "alpha" /\ t[2] = "tonos"
           THEN <<"alpha_tonos">> \o NFC(SubSeq(t, 3, Len(t)))
           ELSE <<t[1]>> \o NFC(Tail(t))

\* str.lower()
LowerChar(c) == IF c = "B" THEN "b" ELSE c

Lower(t) == [i \in 1..Len(t) |-> LowerChar(t[i])]

\* unicodedata.normalize("NFD", text)
NFDChar(c) == IF c = "alpha_tonos" THEN <<"alpha", "tonos">> ELSE <<c>>

NFD(t) == Flatten([i \in 1..Len(t) |-> NFDChar(t[i])])

\* unicodedata.category(c) = "Mn"
IsMn(c) == c = "tonos"

\* string.punctuation plus the Greek question mark and the middle dot
Punctuation == {"!", "*"}

IsSpace(c) == c = " "

\* str.strip()
RECURSIVE LStrip(_)
LStrip(t) == IF t # <<>> /\ IsSpace(Head(t)) THEN LStrip(Tail(t)) ELSE t

RECURSIVE RStrip(_)
RStrip(t) ==
    IF t # <<>> /\ IsSpace(t[Len(t)]) THEN RStrip(SubSeq(t, 1, Len(t) - 1)) ELSE t

Strip(t) == LStrip(RStrip(t))

\* re.sub(r"\s+", " ", text)
RECURSIVE CollapseSpaces(_)
CollapseSpaces(t) ==
    IF t = <<>> THEN <<>>
    ELSE IF IsSpace(Head(t))
           THEN <<" ">> \o CollapseSpaces(LStrip(Tail(t)))
           ELSE <<Head(t)>> \o CollapseSpaces(Tail(t))

\* None as the argument or the result of normalize_text
NoneText == <<"<None>">>

\* variant: the edges are trimmed before the punctuation is removed
normalize_text_strip_first(text) ==
    IF text = NoneText THEN NoneText
    ELSE IF text = <<>> THEN <<>>
    ELSE LET composed   == NFC(text)
             lowered    == Lower(composed)
             decomposed == NFD(lowered)
             no_accents == SelectSeq(decomposed, LAMBDA c : ~IsMn(c))
             medial     == [i \in 1..Len(no_accents) |->
                              IF no_accents[i] = "sigma_final" THEN "sigma"
                              ELSE no_accents[i]]
             no_punct   == SelectSeq(Strip(medial), LAMBDA c : c \notin Punctuation)
         IN  CollapseSpaces(no_punct)

\* normalize_text: None gives None, "" gives "", any other string goes
\* through the six steps
normalize_text(text) ==
    IF text = NoneText THEN NoneText
    ELSE IF text = <<>> THEN <<>>
    ELSE LET composed   == NFC(text)
             lowered    == Lower(composed)
             decomposed == NFD(lowered)
             no_accents == SelectSeq(decomposed, LAMBDA c : ~IsMn(c))
             medial     == [i \in 1..Len(no_accents) |->
                              IF no_accents[i] = "sigma_final" THEN "sigma"
                              ELSE no_accents[i]]
             no_punct   == SelectSeq(medial, LAMBDA c : c \notin Punctuation)
         IN  CollapseSpaces(Strip(no_punct))

\* str.split(): the words between runs of whitespace
RECURSIVE Split(_)
Split(t) ==
    LET s == LStrip(t)
    IN  IF s = <<>> THEN <<>>
        ELSE LET n == CHOOSE k \in 1..Len(s) :
                          /\ \A i \in 1..k : ~IsSpace(s[i])
                          /\ (k = Len(s) \/ IsSpace(s[k + 1]))
             IN  <<SubSeq(s, 1, n)>> \o Split(SubSeq(s, n + 1, Len(s)))

\* re.escape(word): a backslash before every special character
ReSpecial == {"*", " "}

re_escape(word) ==
    Flatten([i \in 1..Len(word) |->
                IF word[i] \in ReSpecial THEN <<"\\", word[i]>> ELSE <<word[i]>>])

\* sep.join(words)
RECURSIVE Join(_, _)
Join(sep, words) ==
    IF words = <<>> THEN <<>>
    ELSE IF Len(words) = 1 THEN words[1]
    ELSE words[1] \o sep \o Join(sep, Tail(words))

Star == <<"*">>

\* settings.FUZZY_THRESHOLD = 0.1, in hundredths
FUZZY_THRESHOLD == 10

\* the value None of an Optional[ColumnElement]
None == [kind |-> "None"]

\* sqlalchemy false()
false == [kind |-> "false"]

or_(conds) == [kind |-> "or", args |-> conds]

and_(conds) == [kind |-> "and", args |-> conds]

\* the terms that survive: not "*", not empty, not empty after normalizing
\* variant: terms that normalize to empty are kept
valid_terms_normalized_keep_empty(terms) ==
    LET kept == SelectSeq(terms, LAMBDA t : t # Star /\ t # <<>>)
    IN  [i \in 1..Len(kept) |-> normalize_text(kept[i])]

valid_terms_normalized(terms) ==
    LET kept == SelectSeq(terms, LAMBDA t : t # Star /\ t # <<>>)
        norm == [i \in 1..Len(kept) |-> normalize_text(kept[i])]
    IN  SelectSeq(norm, LAMBDA t : t # <<>>)

build_fuzzy_conditions(column, terms, threshold) ==
    LET valid == valid_terms_normalized(terms)
    IN  [i \in 1..Len(valid) |->
            [kind |-> "similarity_gt", col |-> column, term |-> valid[i],
             threshold |-> threshold]]

build_regex_conditions(column, terms) ==
    LET valid == valid_terms_normalized(terms)
        withWords == SelectSeq(valid, LAMBDA t : Split(t) # <<>>)
    IN  [i \in 1..Len(withWords) |->
            LET words == Split(withWords[i])
                escaped_words == [k \in 1..Len(words) |-> re_escape(words[k])]
            IN  [kind |-> "regex_imatch", col |-> column,
                 pattern |-> <<"\\m">> \o Join(<<"\\M.*\\m">>, escaped_words)
                             \o <<"\\M">>]]


----------------------------------------------------------------------------
(* Dates and times of the filter arguments *)

Date(y, m, d) == [y |-> y, m |-> m, d |-> d]

ValueError == [ok |-> FALSE]

\* datetime.datetime.strptime(date_str, "%Y-%m-%d").date() on the date
\* strings of the model: padded and unpadded fields parse, a day that the
\* month does not have and text in another layout raise ValueError
strptime_date(date_str) ==
    CASE date_str = "2024-03-20" -> [ok |-> TRUE, value |-> Date(2024, 3, 20)]
      [] date_str = "2024-3-21"  -> [ok |-> TRUE, value |-> Date(2024, 3, 21)]
      [] OTHER                   -> ValueError

\* datetime.datetime.strptime(time_str, "%H:%M:%S")
strptime_time(time_str) ==
    CASE time_str = "08:00:00" -> [ok |-> TRUE, value |-> <<8, 0, 0>>]
      [] time_str = "8:0:0"    -> [ok |-> TRUE, value |-> <<8, 0, 0>>]
      [] time_str = "16:30:00" -> [ok |-> TRUE, value |-> <<16, 30, 0>>]
      [] OTHER                 -> ValueError

\* the entries a date list of the model may hold
DateEntries == {"*", "", "2024-03-20", "2024-3-21", "not-a-date", "2024-02-30"}

\* the entries a list of names, locations, genres or specialties may hold
TermEntries == {Star, <<>>, <<" ">>, <<"B", "!">>,
                <<"alpha_tonos", " ", "sigma_final">>}

TimeValues == {"*", "08:00:00", "8:0:0", "8am", ""}

\* a scalar argument that is None
NoneStr == "<None>"

TypeValues == {NoneStr, "*", "", "power", "musical"}

\* year: Optional[int]; NoYear stands for None
NoYear == -1

YearValues == {NoYear, 1999}

----------------------------------------------------------------------------
(* Per-entity filter builders *)

\* variant: any entry that fails to parse makes the whole filter unsatisfiable
date_list_filter_strict(column, dates) ==
    IF dates = <<"*">> THEN None
    ELSE LET attempted == SelectSeq(dates, LAMBDA x : x # "*" /\ x # "")
             parsed    == SelectSeq(attempted, LAMBDA x : strptime_date(x).ok)
         IN  IF attempted = <<>> THEN None
             ELSE IF Len(parsed) < Len(attempted) THEN false
             ELSE [kind |-> "in", col |-> column,
                   values |-> [i \in 1..Len(parsed) |-> strptime_date(parsed[i]).value]]

\* variant: without has_attempted_dates, no valid date means false()
date_list_filter_no_flag(column, dates) ==
    IF dates = <<"*">> THEN None
    ELSE LET attempted == SelectSeq(dates, LAMBDA x : x # "*" /\ x # "")
             parsed    == SelectSeq(attempted, LAMBDA x : strptime_date(x).ok)
         IN  IF parsed # <<>>
               THEN [kind |-> "in", col |-> column,
                     values |-> [i \in 1..Len(parsed) |-> strptime_date(parsed[i]).value]]
               ELSE false

\* variant: a "*" anywhere in the list switches the date filter off
date_list_filter_any_wildcard(column, dates) ==
    IF \E i \in 1..Len(dates) : dates[i] = "*" THEN None
    ELSE LET attempted   == SelectSeq(dates, LAMBDA x : x # "")
             parsed      == SelectSeq(attempted, LAMBDA x : strptime_date(x).ok)
             valid_dates == [i \in 1..Len(parsed) |-> strptime_date(parsed[i]).value]
         IN  IF valid_dates # <<>>
               THEN [kind |-> "in", col |-> column, values |-> valid_dates]
             ELSE IF attempted # <<>> THEN false
             ELSE None

\* the body shared by _build_outage_date_filter, _build_screening_date_filter,
\* _build_performance_date_filter and _build_hospital_shift_date_filter
date_list_filter(column, dates) ==
    IF dates = <<"*">> THEN None
    ELSE LET attempted   == SelectSeq(dates, LAMBDA x : x # "*" /\ x # "")
             parsed      == SelectSeq(attempted, LAMBDA x : strptime_date(x).ok)
             valid_dates == [i \in 1..Len(parsed) |-> strptime_date(parsed[i]).value]
             has_attempted_dates == attempted # <<>>
         IN  IF valid_dates # <<>>
               THEN [kind |-> "in", col |-> column, values |-> valid_dates]
             ELSE IF has_attempted_dates THEN false
             ELSE None

build_outage_date_filter(outage_dates) ==
    date_list_filter("Outage.outage_date", outage_dates)

build_screening_date_filter(screening_dates) ==
    date_list_filter("Screening.screening_date", screening_dates)

build_performance_date_filter(performance_dates) ==
    date_list_filter("Performance.performance_date", performance_dates)

build_hospital_shift_date_filter(hospital_shift_dates) ==
    date_list_filter("HospitalShift.hospital_shift_date", hospital_shift_dates)

\* the body shared by _build_outage_type_filter and _build_performance_type_filter
type_filter(column, type) ==
    IF type = NoneStr \/ type = "*" \/ type = ""
      THEN None
      ELSE [kind |-> "eq", col |-> column, value |-> type]

build_outage_type_filter(outage_type) == type_filter("Outage.outage_type", outage_type)

build_performance_type_filter(performance_type) ==
    type_filter("Performance.performance_type", performance_type)

build_outage_location_filter(locations) == None

build_outage_affected_areas_filter(affected_areas) == None

\* variant: the specialties are matched like the names of performances
build_specialties_filter_fuzzy(specialties) ==
    IF specialties = <<Star>> THEN None
    ELSE LET conditions == build_fuzzy_conditions("HospitalShift.specialties",
                                                  specialties, FUZZY_THRESHOLD)
         IN  IF conditions # <<>> THEN or_(conditions) ELSE None

build_specialties_filter(specialties) == None

\* variant: only the regex conditions are used
build_hospital_name_filter_regex_only(hospital_names) ==
    IF hospital_names = <<Star>> THEN None
    ELSE LET all_conditions ==
                 build_regex_conditions("HospitalShift.normalized_hospital_name",
                                        hospital_names)
         IN  IF all_conditions = <<>> THEN None
             ELSE IF Len(all_conditions) = 1 THEN all_conditions[1]
             ELSE or_(all_conditions)

build_hospital_name_filter(hospital_names) ==
    IF hospital_names = <<Star>> THEN None
    ELSE LET regex_conditions ==
                 build_regex_conditions("HospitalShift.normalized_hospital_name",
                                        hospital_names)
             fuzzy_conditions ==
                 build_fuzzy_conditions("HospitalShift.normalized_hospital_name",
                                        hospital_names, FUZZY_THRESHOLD)
             all_conditions == regex_conditions \o fuzzy_conditions
         IN  IF all_conditions = <<>> THEN None
             ELSE IF Len(all_conditions) = 1 THEN all_conditions[1]
             ELSE or_(all_conditions)

\* variant: a time that is not in HH:MM:SS form makes the filter unsatisfiable
build_hospital_shift_time_filter_strict(start_time_str, end_time_str) ==
    LET bad(t) == t # "*" /\ ~strptime_time(t).ok
        start_conditions ==
            IF start_time_str # "*" /\ strptime_time(start_time_str).ok
              THEN <<[kind |-> "ge", col |-> "HospitalShift.hospital_shift_start_time",
                      value |-> start_time_str]>>
              ELSE <<>>
        end_conditions ==
            IF end_time_str # "*" /\ strptime_time(end_time_str).ok
              THEN <<[kind |-> "le", col |-> "HospitalShift.hospital_shift_end_time",
                      value |-> end_time_str]>>
              ELSE <<>>
        time_conditions == start_conditions \o end_conditions
    IN  IF bad(start_time_str) \/ bad(end_time_str) THEN false
        ELSE IF time_conditions = <<>> THEN None
        ELSE IF Len(time_conditions) = 1 THEN time_conditions[1]
        ELSE and_(time_conditions)

\* variant: the bounds are exclusive
build_hospital_shift_time_filter_exclusive(start_time_str, end_time_str) ==
    LET start_conditions ==
            IF start_time_str # "*" /\ strptime_time(start_time_str).ok
              THEN <<[kind |-> "gt", col |-> "HospitalShift.hospital_shift_start_time",
                      value |-> start_time_str]>>
              ELSE <<>>
        end_conditions ==
            IF end_time_str # "*" /\ strptime_time(end_time_str).ok
              THEN <<[kind |-> "lt", col |-> "HospitalShift.hospital_shift_end_time",
                      value |-> end_time_str]>>
              ELSE <<>>
        time_conditions == start_conditions \o end_conditions
    IN  IF time_conditions = <<>> THEN None
        ELSE IF Len(time_conditions) = 1 THEN time_conditions[1]
        ELSE and_(time_conditions)

build_hospital_shift_time_filter(start_time_str, end_time_str) ==
    LET start_conditions ==
            IF start_time_str # "*" /\ strptime_time(start_time_str).ok
              THEN <<[kind |-> "ge", col |-> "HospitalShift.hospital_shift_start_time",
                      value |-> start_time_str]>>
              ELSE <<>>
        end_conditions ==
            IF end_time_str # "*" /\ strptime_time(end_time_str).ok
              THEN <<[kind |-> "le", col |-> "HospitalShift.hospital_shift_end_time",
                      value |-> end_time_str]>>
              ELSE <<>>
        time_conditions == start_conditions \o end_conditions
    IN  IF time_conditions = <<>> THEN None
        ELSE IF Len(time_conditions) = 1 THEN time_conditions[1]
        ELSE and_(time_conditions)

\* the body shared by _build_performance_name_filter and
\* _build_performance_location_filter
fuzzy_or_filter(column, terms) ==
    IF terms = <<Star>> THEN None
    ELSE LET conditions == build_fuzzy_conditions(column, terms, FUZZY_THRESHOLD)
         IN  IF conditions # <<>> THEN or_(conditions) ELSE None

build_performance_name_filter(performance_names) ==
    fuzzy_or_filter("Performance.normalized_performance_name", performance_names)

build_performance_location_filter(performance_locations) ==
    fuzzy_or_filter("Performance.normalized_performance_location",
                    performance_locations)

build_movie_filter(movies) ==
    IF movies = <<Star>> THEN None
    ELSE LET conditions_primary ==
                 build_fuzzy_conditions("Movie.normalized_movie_name", movies,
                                        FUZZY_THRESHOLD)
             conditions_greek ==
                 build_fuzzy_conditions("Movie.normalized_movie_name_greek", movies,
                                        FUZZY_THRESHOLD)
             conditions_english ==
                 build_fuzzy_conditions("Movie.normalized_movie_name_english", movies,
                                        FUZZY_THRESHOLD)
             all_movie_conditions ==
                 conditions_primary \o conditions_greek \o conditions_english
         IN  IF all_movie_conditions # <<>> THEN or_(all_movie_conditions) ELSE None

build_genre_filter(genres) ==
    IF genres = <<Star>> \/ genres = <<>> THEN None
    ELSE LET regex_conditions ==
                 build_regex_conditions("Movie.normalized_genre", genres)
             fuzzy_conditions ==
                 build_fuzzy_conditions("Movie.normalized_genre", genres,
                                        FUZZY_THRESHOLD)
             all_genre_conditions == regex_conditions \o fuzzy_conditions
         IN  IF all_genre_conditions # <<>> THEN or_(all_genre_conditions) ELSE None

build_year_filter(year) ==
    IF year = NoYear THEN None
    ELSE [kind |-> "eq_year", col |-> "Movie.year", year |-> year]

\* variant: the names are normalized like the terms of the other filters
build_cinema_filter_normalized(cinemas) ==
    IF cinemas = <<Star>> THEN None
    ELSE LET kept == valid_terms_normalized(cinemas)
             cinema_conditions ==
                 [i \in 1..Len(kept) |->
                     or_(<<[kind |-> "similarity_gt", col |-> "Cinema.cinema_name",
                            term |-> kept[i], threshold |-> FUZZY_THRESHOLD],
                           [kind |-> "ilike", col |-> "Cinema.cinema_name",
                            pattern |-> <<"%">> \o kept[i] \o <<"%">>]>>)]
         IN  IF cinema_conditions # <<>> THEN or_(cinema_conditions) ELSE None

build_cinema_filter(cinemas) ==
    IF cinemas = <<Star>> THEN None
    ELSE LET kept == SelectSeq(cinemas, LAMBDA c : c # Star /\ c # <<>>)
             cinema_conditions ==
                 [i \in 1..Len(kept) |->
                     or_(<<[kind |-> "similarity_gt", col |-> "Cinema.cinema_name",
                            term |-> kept[i], threshold |-> FUZZY_THRESHOLD],
                           [kind |-> "ilike", col |-> "Cinema.cinema_name",
                            pattern |-> <<"%">> \o kept[i] \o <<"%">>]>>)]
         IN  IF cinema_conditions # <<>> THEN or_(cinema_conditions) ELSE None


----------------------------------------------------------------------------
(* Statement assemblers *)

NotNone(fs) == SelectSeq(fs, LAMBDA f : f # None)

\* variant: the WHERE clause is applied also when no filter was built
WhereAlways(filters) == and_(filters)

\* stmt.where(and_(*filters)) when filters is not empty, no WHERE otherwise
Where(filters) == IF filters # <<>> THEN and_(filters) ELSE None

Asc(column) == [col |-> column, dir |-> "asc"]

Desc(column) == [col |-> column, dir |-> "desc"]

outages_order_by == <<Desc("Outage.outage_date"), Desc("Outage.outage_start")>>

\* variant: the shifts are ordered newest first
hospital_shifts_order_by_desc ==
    <<Desc("HospitalShift.hospital_shift_date"), Asc("HospitalShift.hospital_name")>>

hospital_shifts_order_by ==
    <<Asc("HospitalShift.hospital_shift_date"), Asc("HospitalShift.hospital_name")>>

performances_order_by ==
    <<Asc("Performance.performance_date"), Asc("Performance.performance_name")>>

cinemas_order_by(halls_and_screening_times) ==
    <<Asc("Screening.screening_date"), Asc("Cinema.cinema_name"),
      Asc("Movie.movie_name")>>
    \o (IF halls_and_screening_times THEN <<Asc("Screening.screening_time")>>
        ELSE <<>>)

outages_filters(a) ==
    [date           |-> build_outage_date_filter(a.outage_dates),
     type           |-> build_outage_type_filter(a.outage_type),
     location       |-> build_outage_location_filter(a.locations),
     affected_areas |-> build_outage_affected_areas_filter(a.affected_areas)]

build_outages_statement(a) ==
    LET f == outages_filters(a)
        filters == NotNone(<<f.date, f.type, f.location, f.affected_areas>>)
    IN  [select   |-> <<"Outage">>,
         joins    |-> <<>>,
         where    |-> Where(filters),
         distinct |-> FALSE,
         order_by |-> outages_order_by]

hospital_shifts_filters(a) ==
    [date        |-> build_hospital_shift_date_filter(a.hospital_shift_dates),
     name        |-> build_hospital_name_filter(a.hospital_names),
     time        |-> build_hospital_shift_time_filter(a.hospital_shifts_start_time,
                                                      a.hospital_shifts_end_time),
     specialties |-> build_specialties_filter(a.specialties)]

build_hospital_shifts_statement(a) ==
    LET f == hospital_shifts_filters(a)
        filters == NotNone(<<f.date, f.name, f.time, f.specialties>>)
    IN  [select   |-> <<"HospitalShift">>,
         joins    |-> <<>>,
         where    |-> Where(filters),
         distinct |-> FALSE,
         order_by |-> hospital_shifts_order_by]

performances_filters(a) ==
    [date     |-> build_performance_date_filter(a.performance_dates),
     name     |-> build_performance_name_filter(a.performance_names),
     location |-> build_performance_location_filter(a.performance_locations),
     type     |-> build_performance_type_filter(a.performance_type)]

build_performances_statement(a) ==
    LET f == performances_filters(a)
        filters == NotNone(<<f.date, f.name, f.location, f.type>>)
    IN  [select   |-> <<"Performance">>,
         joins    |-> <<>>,
         where    |-> Where(filters),
         distinct |-> FALSE,
         order_by |-> performances_order_by]

cinemas_filters(a) ==
    [date   |-> build_screening_date_filter(a.screening_dates),
     movie  |-> build_movie_filter(a.movies),
     cinema |-> build_cinema_filter(a.cinemas),
     genre  |-> build_genre_filter(a.genres),
     year   |-> build_year_filter(a.year)]

\* variant: the rows are deduplicated whatever the projection
build_cinemas_statement_always_distinct(a) ==
    LET f == cinemas_filters(a)
        filters == NotNone(<<f.date, f.movie, f.cinema, f.genre, f.year>>)
    IN  [select   |-> IF a.halls_and_screening_times
                        THEN <<"Screening.screening_date", "Screening.screening_time",
                               "Movie.movie_name", "Cinema.cinema_name",
                               "Hall.hall_name", "Movie.genre", "Movie.year">>
                        ELSE <<"Screening.screening_date", "Movie.movie_name",
                               "Cinema.cinema_name", "Movie.genre", "Movie.year">>,
         joins    |-> <<"Screening", "Movie", "Hall", "Cinema">>,
         where    |-> Where(filters),
         distinct |-> TRUE,
         order_by |-> cinemas_order_by(a.halls_and_screening_times)]

build_cinemas_statement(a) ==
    LET f == cinemas_filters(a)
        filters == NotNone(<<f.date, f.movie, f.cinema, f.genre, f.year>>)
    IN  [select   |-> IF a.halls_and_screening_times
                        THEN <<"Screening.screening_date", "Screening.screening_time",
                               "Movie.movie_name", "Cinema.cinema_name",
                               "Hall.hall_name", "Movie.genre", "Movie.year">>
                        ELSE <<"Screening.screening_date", "Movie.movie_name",
                               "Cinema.cinema_name", "Movie.genre", "Movie.year">>,
         joins    |-> <<"Screening", "Movie", "Hall", "Cinema">>,
         where    |-> Where(filters),
         distinct |-> ~a.halls_and_screening_times,
         order_by |-> cinemas_order_by(a.halls_and_screening_times)]

----------------------------------------------------------------------------
(* The builders applied to bounded arguments *)

\* total number of entries of the list arguments of one call that are not
\* left at their default ["*"]
MaxEntries == 2

\* a list argument with n entries, or the default ["*"]
DateLists(n) == [1..n -> DateEntries] \cup {<<"*">>}

TermLists(n) == [1..n -> TermEntries] \cup {<<Star>>}

ExecIdle ==
    /\ tool_calls = <<>>
    /\ pc = "start"
    /\ txn = "Idle"
    /\ idx = 1
    /\ inflight = {}
    /\ all_tool_results = EmptyMap
    /\ outcome = NoOutcome
    /\ begins = 0
    /\ commits = 0
    /\ rollbacks = 0
    /\ tool_log = <<>>
    /\ fmt_log = <<>>
    /\ failed_at = 0
    /\ fmt_raised = {}

Built(tool, a, f, st) ==
    /\ built_tool' = tool
    /\ args' = a
    /\ field_filters' = f
    /\ stmt' = st
    /\ UNCHANGED nonBuildVars

BuildOutages ==
    /\ built_tool = ""
    /\ \E n1 \in 0..MaxEntries :
       \E n2 \in 0..(MaxEntries - n1) :
       \E n3 \in 0..(MaxEntries - n1 - n2) :
       \E d \in DateLists(n1), l \in TermLists(n2), aa \in TermLists(n3),
          t \in TypeValues :
           LET a == [outage_dates |-> d, outage_type |-> t, locations |-> l,
                     affected_areas |-> aa]
           IN  Built("outages", a, outages_filters(a), build_outages_statement(a))

BuildHospitalShifts ==
    /\ built_tool = ""
    /\ \E n1 \in 0..MaxEntries :
       \E n2 \in 0..(MaxEntries - n1) :
       \E n3 \in 0..(MaxEntries - n1 - n2) :
       \E d \in DateLists(n1), h \in TermLists(n2), sp \in TermLists(n3),
          st \in TimeValues, et \in TimeValues, ci \in BOOLEAN :
           LET a == [hospital_shift_dates |-> d, hospital_names |-> h,
                     hospital_shifts_start_time |-> st,
                     hospital_shifts_end_time |-> et, specialties |-> sp,
                     include_contact_info |-> ci]
           IN  Built("hospital_shifts", a, hospital_shifts_filters(a),
                     build_hospital_shifts_statement(a))

BuildPerformances ==
    /\ built_tool = ""
    /\ \E n1 \in 0..MaxEntries :
       \E n2 \in 0..(MaxEntries - n1) :
       \E n3 \in 0..(MaxEntries - n1 - n2) :
       \E d \in DateLists(n1), n \in TermLists(n2), l \in TermLists(n3),
          t \in TypeValues :
           LET a == [performance_dates |-> d, performance_names |-> n,
                     performance_locations |-> l, performance_type |-> t]
           IN  Built("performances", a, performances_filters(a),
                     build_performances_statement(a))

BuildCinemas ==
    /\ built_tool = ""
    /\ \E n1 \in 0..MaxEntries :
       \E n2 \in 0..(MaxEntries - n1) :
       \E n3 \in 0..(MaxEntries - n1 - n2) :
       \E n4 \in 0..(MaxEntries - n1 - n2 - n3) :
       \E d \in DateLists(n1), m \in TermLists(n2), c \in TermLists(n3),
          g \in TermLists(n4), hs \in BOOLEAN, y \in YearValues :
           LET a == [screening_dates |-> d, movies |-> m, cinemas |-> c,
                     halls_and_screening_times |-> hs, genres |-> g, year |-> y]
           IN  Built("cinemas", a, cinemas_filters(a), build_cinemas_statement(a))


\* the number of terms given to build_fuzzy_conditions or build_regex_conditions
MaxTerms == 3

\* the columns the condition builders are called with
ConditionColumns == {"HospitalShift.normalized_hospital_name", "Movie.normalized_genre"}

\* build_fuzzy_conditions(column, terms, threshold) is called on its own
BuildFuzzyConditions ==
    /\ built_tool = ""
    /\ \E n \in 0..MaxTerms :
       \E terms \in [1..n -> TermEntries], column \in ConditionColumns :
           Built("build_fuzzy_conditions",
                 [column |-> column, terms |-> terms, threshold |-> FUZZY_THRESHOLD],
                 [conditions |-> build_fuzzy_conditions(column, terms, FUZZY_THRESHOLD)],
                 [none |-> TRUE])

\* build_regex_conditions(column, terms) is called on its own
BuildRegexConditions ==
    /\ built_tool = ""
    /\ \E n \in 0..MaxTerms :
       \E terms \in [1..n -> TermEntries], column \in ConditionColumns :
           Built("build_regex_conditions",
                 [column |-> column, terms |-> terms],
                 [conditions |-> build_regex_conditions(column, terms)],
                 [none |-> TRUE])

BuildIdle ==
    /\ built_tool = ""
    /\ args = [none |-> TRUE]
    /\ field_filters = [none |-> TRUE]
    /\ stmt = [none |-> TRUE]

----------------------------------------------------------------------------
(* Result formatters: strings, rows and sorting                             *)
(*                                                                         *)
(* A Python string that the formatters compare or sort is a sequence of    *)
(* code points; str comparison is lexicographic on code points.            *)

Digit(n) == 48 + n

TwoDigits(n) == <<Digit(n \div 10), Digit(n % 10)>>

FourDigits(n) ==
    <<Digit(n \div 1000), Digit((n \div 100) % 10), Digit((n \div 10) % 10),
      Digit(n % 10)>>

Slash == 47

\* date.strftime("%d/%m/%Y")
strftime_dmy(date) ==
    TwoDigits(date.d) \o <<Slash>> \o TwoDigits(date.m) \o <<Slash>>
        \o FourDigits(date.y)

\* the text used as the section key of a row that has no date
UnknownDate ==
    <<902, 947, 957, 969, 963, 964, 951, 32, 919, 956, 949, 961, 959, 956,
      951, 957, 943, 945>>

\* a < b on str
RECURSIVE StrLess(_, _)
StrLess(a, b) ==
    IF b = <<>> THEN FALSE
    ELSE IF a = <<>> THEN TRUE
    ELSE IF Head(a) # Head(b) THEN Head(a) < Head(b)
    ELSE StrLess(Tail(a), Tail(b))

\* None in a date, name or time column
NoDate == Date(0, 0, 0)

NoneName == <<-1>>

NoTime == -1

\* name or ""
OrEmpty(name) == IF name = NoneName THEN <<>> ELSE name

\* sorted(seq, key=...): a stable sort, Less compares the keys of two items.
\* Rank is the position of item i in the result: after the items with a
\* smaller key and after the earlier items with an equal key.
Rank(seq, i, Less(_, _)) ==
    1 + Cardinality({j \in 1..Len(seq) :
            \/ Less(seq[j], seq[i])
            \/ (~Less(seq[i], seq[j]) /\ j < i)})

SortedBy(seq, Less(_, _)) ==
    [k \in 1..Len(seq) |->
        seq[CHOOSE i \in 1..Len(seq) : Rank(seq, i, Less) = k]]

\* sorted(d.items()) on a dict with str keys: the keys in ascending str order
RECURSIVE SortedKeys(_)
SortedKeys(keys) ==
    IF keys = {} THEN <<>>
    ELSE LET least == CHOOSE k \in keys : \A o \in keys \ {k} : StrLess(k, o)
         IN  <<least>> \o SortedKeys(keys \ {least})

\* The values a result list may hold.  shape and len say what Python value
\* the row is: a model instance ("entity"), a tuple of len elements, a str
\* of len characters, or None; date, name and time are the columns the
\* formatters read from a row of the right shape.
Row(shape, len, date, name, time) ==
    [shape |-> shape, len |-> len, date |-> date, name |-> name, time |-> time]

FmtDates == {Date(2024, 3, 20), Date(2024, 4, 1), Date(2023, 12, 31), NoDate}

FmtNames == {<<65>>, NoneName}

FmtTimes == {20 * 60, NoTime}

\* the rows of the shape a tool's query returns
WellFormedRows(shape, len) ==
    {Row(shape, len, d, n, t) : d \in FmtDates, n \in FmtNames, t \in FmtTimes}

Blank(shape, len) == Row(shape, len, NoDate, NoneName, NoTime)

\* values of other shapes: the model instance, empty and short tuples, the
\* tuples of the other tools, strings and None
OtherRows ==
    {Blank("entity", 0), Blank("tuple", 0), Blank("tuple", 1), Blank("tuple", 3),
     Blank("tuple", 5), Blank("tuple", 7), Blank("str", 11), Blank("str", 7),
     Blank("str", 5), Blank("none", 0)}

MaxRows == 2

RowLists(shape, len) ==
    UNION {[1..n -> WellFormedRows(shape, len) \cup OtherRows] : n \in 0..MaxRows}

\* what a formatter returns or raises
NotFound(message) == [kind |-> "not_found", msg |-> message]

Raised(exception) == [kind |-> "raised", exc |-> exception]

\* "\n".join(formatted_lines): the header line, then one block per section
\* with the section's items in their order; skipped holds the positions of
\* the rows a warning was logged for
Text(header, sections, skipped) ==
    [kind |-> "text", header |-> header, sections |-> sections,
     skipped |-> skipped]

\* the section key of a row
DateStr(row) == IF row.date # NoDate THEN strftime_dmy(row.date) ELSE UnknownDate

\* the first position of rows whose handling raises, 0 when there is none
FirstRaising(rows, Handling(_)) ==
    LET bad == {i \in 1..Len(rows) : Handling(rows[i]) \notin {"ok", "skip"}}
    IN  IF bad = {} THEN 0 ELSE CHOOSE i \in bad : \A j \in bad : i <= j

\* the sections of a grouping {date_str: [row, ...]}: keys sorted as str,
\* each section's rows in input order and then sorted by the formatter's key
Sections(rows, Less(_, _)) ==
    LET keys == SortedKeys({DateStr(rows[i]) : i \in 1..Len(rows)})
    IN  [k \in 1..Len(keys) |->
            [date_str |-> keys[k],
             items    |-> SortedBy(SelectSeq(rows, LAMBDA r : DateStr(r) = keys[k]),
                                   Less)]]

----------------------------------------------------------------------------
(* The four result formatters *)

OUTAGES_NOT_FOUND ==
    "Δεν βρέθηκαν προγραμματισμένες διακοπές που να ταιριάζουν με τα κριτήριά σας."

OUTAGES_HEADER == "Βρέθηκαν οι ακόλουθες προγραμματισμένες διακοπές:"

HOSPITAL_SHIFTS_NOT_FOUND ==
    "Δεν βρέθηκαν εφημερίες νοσοκομείων που να ταιριάζουν με τα κριτήριά σας."

HOSPITAL_SHIFTS_HEADER == "Βρέθηκαν οι ακόλουθες εφημερίες νοσοκομείων:"

PERFORMANCES_NOT_FOUND ==
    "Δεν βρέθηκαν παραστάσεις που να ταιριάζουν με τα κριτήριά σας."

PERFORMANCES_HEADER == "Βρέθηκαν οι ακόλουθες παραστάσεις:"

SCREENINGS_NOT_FOUND ==
    "Δεν βρέθηκαν προβολές ταινιών που να ταιριάζουν με τα κριτήριά σας."

SCREENINGS_HEADER == "Βρέθηκαν οι ακόλουθες προβολές ταινιών:"

\* reading row.outage_date or row.hospital_shift_date: only a model instance
\* has the attribute
entity_row(row) == IF row.shape = "entity" THEN "ok" ELSE "AttributeError"

\* key=lambda o: (o.outage_start is None, o.outage_start)
outage_less(a, b) ==
    \/ a.time # NoTime /\ b.time = NoTime
    \/ a.time # NoTime /\ b.time # NoTime /\ a.time < b.time

\* variant: an empty list is rendered as a header without sections
format_outages_no_empty_check(outages) ==
    LET bad == FirstRaising(outages, entity_row)
    IN  IF bad # 0 THEN Raised(entity_row(outages[bad]))
        ELSE Text(OUTAGES_HEADER, Sections(outages, outage_less), {})

format_outages(outages) ==
    IF outages = <<>> THEN NotFound(OUTAGES_NOT_FOUND)
    ELSE LET bad == FirstRaising(outages, entity_row)
         IN  IF bad # 0 THEN Raised(entity_row(outages[bad]))
             ELSE Text(OUTAGES_HEADER, Sections(outages, outage_less), {})

\* key=lambda s: s.hospital_name or ""
hospital_shift_less(a, b) == StrLess(OrEmpty(a.name), OrEmpty(b.name))

format_hospital_shifts(shifts) ==
    IF shifts = <<>> THEN NotFound(HOSPITAL_SHIFTS_NOT_FOUND)
    ELSE LET bad == FirstRaising(shifts, entity_row)
         IN  IF bad # 0 THEN Raised(entity_row(shifts[bad]))
             ELSE Text(HOSPITAL_SHIFTS_HEADER,
                       Sections(shifts, hospital_shift_less), {})

\* if not perf_tuple: warn and continue; perf = perf_tuple[0];
\* perf.performance_date
performance_row(row) ==
    CASE row.shape = "none"                  -> "skip"
      [] row.shape = "tuple" /\ row.len = 0  -> "skip"
      [] row.shape = "tuple" /\ row.len = 1  -> "ok"
      [] row.shape = "entity"                -> "TypeError"
      [] OTHER                               -> "AttributeError"

\* key (p.performance_start_time is None, p.performance_start_time,
\*      p.performance_name or "")
performance_less(a, b) ==
    \/ a.time # NoTime /\ b.time = NoTime
    \/ a.time # NoTime /\ b.time # NoTime /\ a.time < b.time
    \/ /\ a.time = b.time
       /\ StrLess(OrEmpty(a.name), OrEmpty(b.name))

format_performances(performances) ==
    IF performances = <<>> THEN NotFound(PERFORMANCES_NOT_FOUND)
    ELSE LET bad == FirstRaising(performances, performance_row)
             kept == SelectSeq(performances, LAMBDA r : performance_row(r) = "ok")
         IN  IF bad # 0 THEN Raised(performance_row(performances[bad]))
             ELSE Text(PERFORMANCES_HEADER, Sections(kept, performance_less),
                       {i \in 1..Len(performances) :
                            performance_row(performances[i]) = "skip"})

\* the tuple unpacking of the grouping loop and the strftime calls after it:
\* a value that does not unpack into the mode's number of names raises
\* TypeError or ValueError, which the loop catches; a str of that many
\* characters unpacks, and date_obj.strftime then raises AttributeError,
\* which the loop does not catch
screening_row(row, halls_and_screening_times) ==
    LET columns == IF halls_and_screening_times THEN 7 ELSE 5
    IN  CASE row.shape = "tuple" /\ row.len = columns -> "ok"
          [] row.shape = "str" /\ row.len = columns   -> "AttributeError"
          [] OTHER                                    -> "skip"

UnknownTime == <<902, 947, 957, 969, 963, 964, 951, 32, 911, 961, 945>>

Colon == 58

\* time_obj.strftime("%H:%M") if time_obj else "Άγνωστη Ώρα"
TimeStr(time) ==
    IF time # NoTime
      THEN TwoDigits(time \div 60) \o <<Colon>> \o TwoDigits(time % 60)
      ELSE UnknownTime

\* sorted(movies_data.items()) compares the movie keys of one date and
\* cinema; comparing None with a str raises TypeError
MixedMovieKeys(rows) ==
    \E i, j \in 1..Len(rows) :
        /\ DateStr(rows[i]) = DateStr(rows[j])
        /\ rows[i].name = NoneName
        /\ rows[j].name # NoneName

\* one section per date; its items are the movies of the section in
\* ascending order, each with its (time, hall) details sorted by time text
\* in detailed mode.  The rows of the model all name one cinema.
ScreeningSections(rows, halls_and_screening_times) ==
    LET keys == SortedKeys({DateStr(rows[i]) : i \in 1..Len(rows)})
        Movies(k) == SortedKeys({rows[i].name : i \in
                        {j \in 1..Len(rows) : DateStr(rows[j]) = keys[k]}})
        Details(k, movie) ==
            IF halls_and_screening_times
              THEN SortedBy([i \in 1..Len(SelectSeq(rows, LAMBDA r :
                                 DateStr(r) = keys[k] /\ r.name = movie)) |->
                               TimeStr(SelectSeq(rows, LAMBDA r :
                                 DateStr(r) = keys[k] /\ r.name = movie)[i].time)],
                            StrLess)
              ELSE <<>>
    IN  [k \in 1..Len(keys) |->
            [date_str |-> keys[k],
             items    |-> [m \in 1..Len(Movies(k)) |->
                             [name    |-> Movies(k)[m],
                              date    |-> (CHOOSE r \in {rows[i] : i \in 1..Len(rows)} :
                                              DateStr(r) = keys[k]).date,
                              details |-> Details(k, Movies(k)[m])]]]]

format_screenings(screenings, halls_and_screening_times) ==
    IF screenings = <<>> THEN NotFound(SCREENINGS_NOT_FOUND)
    ELSE LET Handling(r) == screening_row(r, halls_and_screening_times)
             bad  == FirstRaising(screenings, Handling)
             kept == SelectSeq(screenings, LAMBDA r : Handling(r) = "ok")
         IN  IF bad # 0 THEN Raised(Handling(screenings[bad]))
             ELSE IF MixedMovieKeys(kept) THEN Raised("TypeError")
             ELSE Text(SCREENINGS_HEADER,
                       ScreeningSections(kept, halls_and_screening_times),
                       {i \in 1..Len(screenings) : Handling(screenings[i]) = "skip"})

----------------------------------------------------------------------------
(* The history tool and the entry points of the database tools *)

\* the values the module constant THESSALONIKI_HISTORY_TEXT may hold when
\* query_thessaloniki_history reads it: no text (None or ""), or the corpus
HistoryTexts == {NoneStr, "", "<the history of Thessaloniki>"}

SearchQueries == {"", "White Tower", "Obscure topic"}

HISTORY_UNAVAILABLE == "Δεν ήταν δυνατή η ανάκτηση των ιστορικών πληροφοριών."

\* history_text = THESSALONIKI_HISTORY_TEXT; if not history_text: return None
query_thessaloniki_history(search_query, corpus) ==
    IF corpus = NoneStr \/ corpus = "" THEN NoneStr ELSE corpus

\* variant: the text is cut down to the part that names the query
run_history_filtered(search_query, corpus) ==
    LET history_text == query_thessaloniki_history(search_query, corpus)
    IN  IF history_text = NoneStr THEN HISTORY_UNAVAILABLE
        ELSE IF search_query = "" THEN history_text
        ELSE "<the part of the history about the query>"

run_history(search_query, corpus) ==
    LET history_text == query_thessaloniki_history(search_query, corpus)
    IN  IF history_text = NoneStr THEN HISTORY_UNAVAILABLE ELSE history_text

ResultsIdle ==
    /\ fmt_tool = ""
    /\ fmt_input = [none |-> TRUE]
    /\ fmt_output = [none |-> TRUE]
    /\ db_executes = 0

Applied(function, input, output, executes) ==
    /\ fmt_tool' = function
    /\ fmt_input' = input
    /\ fmt_output' = output
    /\ db_executes' = db_executes + executes
    /\ UNCHANGED nonResultVars

FormatOutages ==
    /\ fmt_tool = ""
    /\ \E rows \in RowLists("entity", 0) :
          Applied("format_outages", [rows |-> rows], format_outages(rows), 0)

FormatHospitalShifts ==
    /\ fmt_tool = ""
    /\ \E rows \in RowLists("entity", 0) :
          Applied("format_hospital_shifts", [rows |-> rows],
                  format_hospital_shifts(rows), 0)

FormatPerformances ==
    /\ fmt_tool = ""
    /\ \E rows \in RowLists("tuple", 1) :
          Applied("format_performances", [rows |-> rows],
                  format_performances(rows), 0)

FormatScreenings ==
    /\ fmt_tool = ""
    /\ \E halls_and_screening_times \in BOOLEAN :
          \E rows \in RowLists("tuple", IF halls_and_screening_times THEN 7 ELSE 5) :
              Applied("format_screenings",
                      [rows |-> rows,
                       halls_and_screening_times |-> halls_and_screening_times],
                      format_screenings(rows, halls_and_screening_times), 0)

\* run_history: no statement is built and db is not used
RunHistory ==
    /\ fmt_tool = ""
    /\ \E search_query \in SearchQueries, corpus \in HistoryTexts :
          Applied("run_history",
                  [search_query |-> search_query, corpus |-> corpus],
                  [kind |-> "str", text |-> run_history(search_query, corpus)],
                  0)

\* run_cinemas, run_performances, run_outages, run_hospital_shifts with the
\* default arguments: the statement is built, db.execute is awaited once and
\* the rows it returned are handed back
RunDbTool ==
    /\ fmt_tool = ""
    /\ \E tool \in DbTools :
          LET shape == IF tool \in {"outages", "hospital_shifts"} THEN "entity"
                       ELSE "tuple"
              len   == CASE tool = "performances" -> 1
                         [] tool = "cinemas"      -> 5
                         [] OTHER                 -> 0
          IN  \E n \in 0..MaxRows :
              \E rows \in [1..n -> WellFormedRows(shape, len)] :
                  Applied("run_db_tool", [tool |-> tool],
                          [kind |-> "rows", rows |-> rows], 1)

----------------------------------------------------------------------------
(* normalize_text applied to bounded strings *)

MaxTextLen == 3

Texts == UNION {[1..n -> Chars] : n \in 0..MaxTextLen}

\* no call made yet
NoText == <<"<unset>">>

TextIdle ==
    /\ norm_input = NoText
    /\ norm_output = NoText
    /\ norm_again = NoText

\* normalize_text(text) for a string or None
Normalize ==
    /\ norm_output = NoText
    /\ \E text \in Texts \cup {NoneText} :
          /\ norm_input' = text
          /\ norm_output' = normalize_text(text)
    /\ UNCHANGED norm_again
    /\ UNCHANGED nonTextVars

\* normalize_text applied to the value the first call returned
NormalizeAgain ==
    /\ norm_output # NoText
    /\ norm_again = NoText
    /\ norm_again' = normalize_text(norm_output)
    /\ UNCHANGED <<norm_input, norm_output>>
    /\ UNCHANGED nonTextVars

----------------------------------------------------------------------------
(* The conversation-history store: one session's list in Redis, add_chat_turn *)
(* and get_chat_history                                                       *)

\* settings.REDIS_MAX_HISTORY_LENGTH, the number of turns kept.  The setting
\* is any positive number (50 unless configured); the model runs with a
\* small one so that the trim takes effect within MaxTurns calls.
REDIS_MAX_HISTORY_LENGTH == 2

REDIS_HISTORY_TTL == 86400

\* the number of add_chat_turn calls of one behaviour
MaxTurns == 4

Callers == {1, 2}

\* json.dumps({"type": ..., "message": ...}) and json.loads of such a text
json_dumps(entry) == <<"json", entry.type, entry.message>>

json_loads(text) == [type |-> text[2], message |-> text[3]]

\* a Redis list index (0-based, negative counts from the end) as an offset
\* from the head, before clamping to the list
FromHead(len, index) == IF index < 0 THEN len + index ELSE index

\* the elements LRANGE and LTRIM select: start is clamped to 0, stop to the
\* last element, and an empty range selects nothing
ListRange(list, start, stop) ==
    LET len == Len(list)
        s   == IF FromHead(len, start) < 0 THEN 0 ELSE FromHead(len, start)
        e   == IF FromHead(len, stop) >= len THEN len - 1 ELSE FromHead(len, stop)
    IN  IF s > e \/ s >= len THEN <<>> ELSE SubSeq(list, s + 1, e + 1)

lrange(list, start, stop) == ListRange(list, start, stop)

ltrim(list, start, stop) == ListRange(list, start, stop)

rpush(list, value) == Append(list, value)

\* the commands of a pipeline applied in order to the key
RECURSIVE Execute(_, _)
Execute(key, commands) ==
    IF commands = <<>> THEN key
    ELSE LET c == Head(commands)
             next == CASE c.cmd = "rpush"  ->
                            [key EXCEPT !.list = rpush(key.list, c.value)]
                       [] c.cmd = "ltrim"  ->
                            [key EXCEPT !.list = ltrim(key.list, c.start, c.stop)]
                       [] c.cmd = "expire" ->
                            [key EXCEPT !.ttl = c.seconds]
         IN  Execute(next, Tail(commands))

MemoryIdle ==
    /\ redis_list = <<>>
    /\ redis_ttl = 0
    /\ pipe = [c \in Callers |-> <<>>]
    /\ mem_pc = [c \in Callers |-> "idle"]
    /\ turn_of = [c \in Callers |-> 0]
    /\ turn_counter = 0
    /\ appended = <<>>
    /\ live_from = 0
    /\ history_read = [kind |-> "none"]

\* add_chat_turn is called with the messages of a new turn: the two entries
\* are serialized and the pipeline is opened
AddChatTurn(c) ==
    /\ mem_pc[c] = "idle"
    /\ turn_counter < MaxTurns
    /\ turn_counter' = turn_counter + 1
    /\ turn_of' = [turn_of EXCEPT ![c] = turn_counter + 1]
    /\ pipe' = [pipe EXCEPT ![c] = <<>>]
    /\ mem_pc' = [mem_pc EXCEPT ![c] = "pipeline"]
    /\ UNCHANGED <<redis_list, redis_ttl, appended, live_from, history_read>>
    /\ UNCHANGED nonMemoryVars

user_entry(c) == json_dumps([type |-> "user", message |-> turn_of[c]])

bot_entry(c) == json_dumps([type |-> "assistant", message |-> turn_of[c]])

Queue(c, from, to, command) ==
    /\ mem_pc[c] = from
    /\ pipe' = [pipe EXCEPT ![c] = Append(@, command)]
    /\ mem_pc' = [mem_pc EXCEPT ![c] = to]
    /\ UNCHANGED <<redis_list, redis_ttl, turn_of, turn_counter, appended,
                   live_from, history_read>>
    /\ UNCHANGED nonMemoryVars

\* await pipe.rpush(history_key, user_entry)
QueueUser(c) ==
    Queue(c, "pipeline", "user_queued", [cmd |-> "rpush", value |-> user_entry(c)])

\* await pipe.rpush(history_key, bot_entry)
QueueBot(c) ==
    Queue(c, "user_queued", "bot_queued", [cmd |-> "rpush", value |-> bot_entry(c)])

\* variant: the trim keeps REDIS_MAX_HISTORY_LENGTH entries counted from the head
QueueTrimFromHead(c) ==
    Queue(c, "bot_queued", "trim_queued",
          [cmd |-> "ltrim", start |-> 0, stop |-> REDIS_MAX_HISTORY_LENGTH * 2 - 1])

\* await pipe.ltrim(history_key, -settings.REDIS_MAX_HISTORY_LENGTH * 2, -1)
QueueTrim(c) ==
    Queue(c, "bot_queued", "trim_queued",
          [cmd |-> "ltrim", start |-> -REDIS_MAX_HISTORY_LENGTH * 2, stop |-> -1])

\* await pipe.expire(history_key, settings.REDIS_HISTORY_TTL)
QueueExpire(c) ==
    Queue(c, "trim_queued", "expire_queued",
          [cmd |-> "expire", seconds |-> REDIS_HISTORY_TTL])

\* the values the rpush commands of a pipeline append
Pushed(commands) ==
    LET pushes == SelectSeq(commands, LAMBDA c : c.cmd = "rpush")
    IN  [i \in 1..Len(pushes) |-> pushes[i].value]

\* variant: the pipeline is not a transaction, each execute step applies the
\* next queued command only
PipeExecuteOneByOne(c) ==
    /\ mem_pc[c] = "expire_queued"
    /\ LET key == Execute([list |-> redis_list, ttl |-> redis_ttl],
                          <<Head(pipe[c])>>)
       IN  /\ redis_list' = key.list
           /\ redis_ttl' = key.ttl
    /\ appended' = appended \o Pushed(<<Head(pipe[c])>>)
    /\ pipe' = [pipe EXCEPT ![c] = Tail(@)]
    /\ mem_pc' = [mem_pc EXCEPT ![c] = IF Len(pipe[c]) = 1 THEN "idle"
                                       ELSE "expire_queued"]
    /\ UNCHANGED <<turn_of, turn_counter, live_from, history_read>>
    /\ UNCHANGED nonMemoryVars

\* await pipe.execute(): the queued commands run on the server as one
\* MULTI/EXEC transaction
PipeExecute(c) ==
    /\ mem_pc[c] = "expire_queued"
    /\ LET key == Execute([list |-> redis_list, ttl |-> redis_ttl], pipe[c])
       IN  /\ redis_list' = key.list
           /\ redis_ttl' = key.ttl
    /\ appended' = appended \o Pushed(pipe[c])
    /\ pipe' = [pipe EXCEPT ![c] = <<>>]
    /\ mem_pc' = [mem_pc EXCEPT ![c] = "idle"]
    /\ UNCHANGED <<turn_of, turn_counter, live_from, history_read>>
    /\ UNCHANGED nonMemoryVars

\* pipe.execute() raises redis.RedisError: nothing was applied, the error is
\* logged and add_chat_turn returns
PipeExecuteFails(c) ==
    /\ mem_pc[c] = "expire_queued"
    /\ pipe' = [pipe EXCEPT ![c] = <<>>]
    /\ mem_pc' = [mem_pc EXCEPT ![c] = "idle"]
    /\ UNCHANGED <<redis_list, redis_ttl, turn_of, turn_counter, appended,
                   live_from, history_read>>
    /\ UNCHANGED nonMemoryVars

\* the key reaches its expiry time: Redis deletes the list
KeyExpires ==
    /\ redis_ttl > 0
    /\ redis_list' = <<>>
    /\ redis_ttl' = 0
    /\ live_from' = Len(appended)
    /\ UNCHANGED <<pipe, mem_pc, turn_of, turn_counter, appended, history_read>>
    /\ UNCHANGED nonMemoryVars

Limits == {0, 1, 4, 10}

\* variant: the selected entries are handed back newest first
get_chat_history_reversed(list, limit) ==
    LET raw_history == lrange(list, -limit, -1)
    IN  [i \in 1..Len(raw_history) |->
            json_loads(raw_history[Len(raw_history) + 1 - i])]

\* raw_history = await redis_client.lrange(history_key, -limit, -1);
\* history = [json.loads(entry) for entry in raw_history]
get_chat_history(list, limit) ==
    LET raw_history == lrange(list, -limit, -1)
    IN  [i \in 1..Len(raw_history) |-> json_loads(raw_history[i])]

GetChatHistory ==
    /\ \E limit \in Limits :
          history_read' = [kind |-> "read", limit |-> limit, of |-> redis_list,
                           history |-> get_chat_history(redis_list, limit)]
    /\ UNCHANGED <<redis_list, redis_ttl, pipe, mem_pc, turn_of, turn_counter,
                   appended, live_from>>
    /\ UNCHANGED nonMemoryVars

\* lrange raises redis.RedisError: the error is logged and [] is returned
GetChatHistoryFails ==
    /\ \E limit \in Limits :
          history_read' = [kind |-> "failed", limit |-> limit, of |-> redis_list,
                           history |-> <<>>]
    /\ UNCHANGED <<redis_list, redis_ttl, pipe, mem_pc, turn_of, turn_counter,
                   appended, live_from>>
    /\ UNCHANGED nonMemoryVars

NextMemory ==
    \/ \E c \in Callers :
          \/ AddChatTurn(c)
          \/ QueueUser(c)
          \/ QueueBot(c)
          \/ QueueTrim(c)
          \/ QueueExpire(c)
          \/ PipeExecute(c)
          \/ PipeExecuteFails(c)
    \/ KeyExpires
    \/ GetChatHistory
    \/ GetChatHistoryFails

----------------------------------------------------------------------------
(* process_chat_message: one call, split at its awaits *)

MaxChatBatch == 2

\* the tool invocations search_for_tools may return
ChatBatches == UNION {[1..n -> ToolNames] : n \in 0..MaxChatBatch}

\* the session_id argument: None, or the id of an existing session
NoSession == "<None>"

SessionIds == {NoSession, "session-1"}

\* str(uuid.uuid4())
FreshSessionId == "uuid4-1"

UserMessages == {"plain question", "question with an abbreviation"}

\* user_query_preprocess: every word that is a known abbreviation is
\* replaced by its full form, other words are kept
user_query_preprocess(user_query) ==
    IF user_query = "question with an abbreviation"
      THEN "question with the full form"
      ELSE user_query

\* what the session's list may hold when the call starts: whole turns stored
\* by earlier calls, at most REDIS_MAX_HISTORY_LENGTH of them
OldTurn(question, reply) ==
    <<json_dumps([type |-> "user", message |-> question]),
      json_dumps([type |-> "assistant", message |-> reply])>>

StoredHistories ==
    {<<>>,
     OldTurn("old question 1", "old reply 1"),
     OldTurn("old question 1", "old reply 1")
        \o OldTurn("old question 2", "old reply 2")}

\* ResponseSchema: direct_response (None or a text) and tools
Decisions ==
    {[direct_response |-> "Hello", tools |-> <<>>],
     [direct_response |-> "Hello", tools |-> <<"outages">>]}
    \cup {[direct_response |-> NoneStr, tools |-> b] : b \in ChatBatches}

Truthy(text) == text # NoneStr /\ text # ""

NoResult == [kind |-> "pending"]

ChatIdle ==
    /\ chat_pc = "not_called"
    /\ chat_args = [none |-> TRUE]
    /\ session_id = NoSession
    /\ history = <<>>
    /\ decision = [none |-> TRUE]
    /\ tool_results = [kind |-> "none"]
    /\ bot_reply = NoneStr
    /\ chat_result = NoResult
    /\ call_log = <<>>
    /\ load_failed = FALSE
    /\ save_failed = FALSE
    /\ stored_before = <<>>

\* the executor before process_chat_message calls it
ExecNotCalled ==
    /\ tool_calls = <<>>
    /\ pc = "not_called"
    /\ txn = "Idle"
    /\ idx = 1
    /\ inflight = {}
    /\ all_tool_results = EmptyMap
    /\ outcome = NoOutcome
    /\ begins = 0
    /\ commits = 0
    /\ rollbacks = 0
    /\ tool_log = <<>>
    /\ fmt_log = <<>>
    /\ failed_at = 0
    /\ fmt_raised = {}

\* process_chat_message(user_message, session_id, redis_client, db) is called
\* on a session whose list holds the turns of earlier calls
ChatInit ==
    /\ chat_pc = "start"
    /\ chat_args \in [user_message : UserMessages, session_id : SessionIds]
    /\ session_id = NoSession
    /\ history = <<>>
    /\ decision = [none |-> TRUE]
    /\ tool_results = [kind |-> "none"]
    /\ bot_reply = NoneStr
    /\ chat_result = NoResult
    /\ call_log = <<>>
    /\ load_failed = FALSE
    /\ save_failed = FALSE
    /\ redis_list \in StoredHistories
    /\ chat_args.session_id = NoSession => redis_list = <<>>
    /\ stored_before = redis_list
    /\ redis_ttl = (IF redis_list = <<>> THEN 0 ELSE REDIS_HISTORY_TTL)
    /\ pipe = [c \in Callers |-> <<>>]
    /\ mem_pc = [c \in Callers |-> "idle"]
    /\ turn_of = [c \in Callers |-> 0]
    /\ turn_counter = 0
    /\ appended = redis_list
    /\ live_from = 0
    /\ history_read = [kind |-> "none"]

chatLocals == <<chat_args, session_id, history, decision, tool_results,
                bot_reply, chat_result, load_failed, save_failed, stored_before>>

\* if session_id is None: session_id = str(uuid.uuid4())
SessionOf(a) == IF a.session_id = NoSession THEN FreshSessionId ELSE a.session_id

\* history = await memory_service.get_chat_history(..., limit=4)
LoadHistory ==
    /\ chat_pc = "start"
    /\ session_id' = SessionOf(chat_args)
    /\ history' = get_chat_history(redis_list, 4)
    /\ call_log' = Append(call_log, "get_chat_history")
    /\ chat_pc' = "search"
    /\ UNCHANGED <<chat_args, decision, tool_results, bot_reply, chat_result,
                   load_failed, save_failed, stored_before>>
    /\ UNCHANGED <<execVars, buildVars, resultVars, textVars, memVars>>

\* the history store fails: get_chat_history returns [] (and an exception
\* raised by it is caught by process_chat_message); history stays []
LoadHistoryFails ==
    /\ chat_pc = "start"
    /\ session_id' = SessionOf(chat_args)
    /\ history' = <<>>
    /\ load_failed' = TRUE
    /\ call_log' = Append(call_log, "get_chat_history")
    /\ chat_pc' = "search"
    /\ UNCHANGED <<chat_args, decision, tool_results, bot_reply, chat_result,
                   save_failed, stored_before>>
    /\ UNCHANGED <<execVars, buildVars, resultVars, textVars, memVars>>

\* search_for_tools_response = await search_for_tools(...); a direct response
\* is the reply, otherwise the tools are to be executed
SearchForTools ==
    /\ chat_pc = "search"
    /\ \E d \in Decisions :
          /\ decision' = d
          /\ IF Truthy(d.direct_response)
               THEN /\ bot_reply' = d.direct_response
                    /\ chat_pc' = "store"
               ELSE /\ bot_reply' = bot_reply
                    /\ chat_pc' = "execute"
    /\ call_log' = Append(call_log, "search_for_tools")
    /\ UNCHANGED <<chat_args, session_id, history, tool_results, chat_result,
                   load_failed, save_failed, stored_before>>
    /\ UNCHANGED <<execVars, buildVars, resultVars, textVars, memVars>>

\* an exception of a collaborator that process_chat_message does not catch
Propagate(from, who) ==
    /\ chat_pc = from
    /\ chat_result' = [kind |-> "exception", raised_by |-> who]
    /\ call_log' = Append(call_log, who)
    /\ chat_pc' = "done"
    /\ UNCHANGED <<chat_args, session_id, history, decision, tool_results,
                   bot_reply, load_failed, save_failed, stored_before>>
    /\ UNCHANGED <<execVars, buildVars, resultVars, textVars, memVars>>

SearchForToolsRaises == Propagate("search", "search_for_tools")

\* tool_results = await execute_tools_sequentially(tool_calls=..., db=db):
\* the call is made
CallExecutor ==
    /\ chat_pc = "execute"
    /\ pc = "not_called"
    /\ tool_calls' = decision.tools
    /\ pc' = "start"
    /\ call_log' = Append(call_log, "execute_tools_sequentially")
    /\ chat_pc' = "executing"
    /\ UNCHANGED <<txn, idx, inflight, all_tool_results, outcome, begins,
                   commits, rollbacks, tool_log, fmt_log, failed_at, fmt_raised>>
    /\ UNCHANGED chatLocals
    /\ UNCHANGED <<buildVars, resultVars, textVars, memVars>>

\* variant: the synthesizer is called as soon as the executor has started
SynthesizeEarly ==
    /\ chat_pc = "executing"
    /\ pc # "not_called"
    /\ tool_results' = [kind |-> "map", map |-> all_tool_results]
    /\ bot_reply' = "Here is the info you requested."
    /\ call_log' = Append(call_log, "get_response_with_db_info_grounding")
    /\ chat_pc' = "store"
    /\ UNCHANGED <<chat_args, session_id, history, decision, chat_result,
                   load_failed, save_failed, stored_before>>
    /\ UNCHANGED <<execVars, buildVars, resultVars, textVars, memVars>>

\* the executor returned its map: final_response_obj = await
\* get_response_with_db_info_grounding(..., tool_results=tool_results);
\* bot_reply = final_response_obj.response_to_user
Synthesize ==
    /\ chat_pc = "executing"
    /\ pc = "done"
    /\ outcome.kind = "map"
    /\ tool_results' = outcome
    /\ bot_reply' = "Here is the info you requested."
    /\ call_log' = Append(call_log, "get_response_with_db_info_grounding")
    /\ chat_pc' = "store"
    /\ UNCHANGED <<chat_args, session_id, history, decision, chat_result,
                   load_failed, save_failed, stored_before>>
    /\ UNCHANGED <<execVars, buildVars, resultVars, textVars, memVars>>

\* the synthesizer raises: nothing catches it
SynthesizeRaises ==
    /\ chat_pc = "executing"
    /\ pc = "done"
    /\ outcome.kind = "map"
    /\ tool_results' = outcome
    /\ chat_result' = [kind |-> "exception",
                       raised_by |-> "get_response_with_db_info_grounding"]
    /\ call_log' = Append(call_log, "get_response_with_db_info_grounding")
    /\ chat_pc' = "done"
    /\ UNCHANGED <<chat_args, session_id, history, decision, bot_reply,
                   load_failed, save_failed, stored_before>>
    /\ UNCHANGED <<execVars, buildVars, resultVars, textVars, memVars>>

\* variant: the exception of the executor is caught and answered with an apology
ExecutorRaisesCaught ==
    /\ chat_pc = "executing"
    /\ pc = "done"
    /\ outcome.kind = "exception"
    /\ bot_reply' = "Sorry, something went wrong."
    /\ chat_pc' = "store"
    /\ UNCHANGED <<chat_args, session_id, history, decision, tool_results,
                   chat_result, call_log, load_failed, save_failed, stored_before>>
    /\ UNCHANGED <<execVars, buildVars, resultVars, textVars, memVars>>

\* execute_tools_sequentially raised: nothing catches it
ExecutorRaises ==
    /\ pc = "done"
    /\ outcome.kind = "exception"
    /\ Propagate("executing", "execute_tools_sequentially:raised")

\* the pipeline add_chat_turn builds for one turn
TurnCommands(user_message, bot_message) ==
    <<[cmd |-> "rpush",
       value |-> json_dumps([type |-> "user", message |-> user_message])],
      [cmd |-> "rpush",
       value |-> json_dumps([type |-> "assistant", message |-> bot_message])],
      [cmd |-> "ltrim", start |-> -REDIS_MAX_HISTORY_LENGTH * 2, stop |-> -1],
      [cmd |-> "expire", seconds |-> REDIS_HISTORY_TTL]>>

\* variant: the turn is stored as soon as the tools were chosen and again
\* when the reply is known
StoreTurnTwice ==
    /\ chat_pc = "store"
    /\ LET commands == TurnCommands(user_query_preprocess(chat_args.user_message),
                                    bot_reply)
           key == Execute(Execute([list |-> redis_list, ttl |-> redis_ttl],
                                  commands), commands)
       IN  /\ redis_list' = key.list
           /\ redis_ttl' = key.ttl
           /\ appended' = appended \o Pushed(commands) \o Pushed(commands)
    /\ call_log' = Append(Append(call_log, "add_chat_turn"), "add_chat_turn")
    /\ chat_pc' = "return"
    /\ UNCHANGED chatLocals
    /\ UNCHANGED <<pipe, mem_pc, turn_of, turn_counter, live_from, history_read>>
    /\ UNCHANGED <<execVars, buildVars, resultVars, textVars>>

\* await memory_service.add_chat_turn(session_id, preprocessed_user_message,
\* bot_reply, redis_client): the pipeline is executed
StoreTurn ==
    /\ chat_pc = "store"
    /\ LET commands == TurnCommands(user_query_preprocess(chat_args.user_message),
                                    bot_reply)
           key == Execute([list |-> redis_list, ttl |-> redis_ttl], commands)
       IN  /\ redis_list' = key.list
           /\ redis_ttl' = key.ttl
           /\ appended' = appended \o Pushed(commands)
    /\ call_log' = Append(call_log, "add_chat_turn")
    /\ chat_pc' = "return"
    /\ UNCHANGED chatLocals
    /\ UNCHANGED <<pipe, mem_pc, turn_of, turn_counter, live_from, history_read>>
    /\ UNCHANGED <<execVars, buildVars, resultVars, textVars>>

\* variant: a failure of the history store reaches the caller
StoreTurnFailsRaises ==
    /\ chat_pc = "store"
    /\ save_failed' = TRUE
    /\ chat_result' = [kind |-> "exception", raised_by |-> "add_chat_turn"]
    /\ call_log' = Append(call_log, "add_chat_turn")
    /\ chat_pc' = "done"
    /\ UNCHANGED <<chat_args, session_id, history, decision, tool_results,
                   bot_reply, load_failed, stored_before>>
    /\ UNCHANGED <<execVars, buildVars, resultVars, textVars, memVars>>

\* the history store fails while saving: add_chat_turn logs the error and
\* returns (and an exception raised by it is caught by process_chat_message)
StoreTurnFails ==
    /\ chat_pc = "store"
    /\ save_failed' = TRUE
    /\ call_log' = Append(call_log, "add_chat_turn")
    /\ chat_pc' = "return"
    /\ UNCHANGED <<chat_args, session_id, history, decision, tool_results,
                   bot_reply, chat_result, load_failed, stored_before>>
    /\ UNCHANGED <<execVars, buildVars, resultVars, textVars, memVars>>

\* return bot_reply, session_id
Return ==
    /\ chat_pc = "return"
    /\ chat_result' = [kind |-> "reply", bot_reply |-> bot_reply,
                       session_id |-> session_id]
    /\ chat_pc' = "done"
    /\ UNCHANGED <<chat_args, session_id, history, decision, tool_results,
                   bot_reply, call_log, load_failed, save_failed, stored_before>>
    /\ UNCHANGED <<execVars, buildVars, resultVars, textVars, memVars>>

NextChat ==
    \/ LoadHistory
    \/ LoadHistoryFails
    \/ SearchForTools
    \/ SearchForToolsRaises
    \/ CallExecutor
    \/ Begin
    \/ MissingTool
    \/ CallTool
    \/ ToolSucceeds
    \/ ToolRaises
    \/ CommitAndReturn
    \/ Synthesize
    \/ SynthesizeRaises
    \/ ExecutorRaises
    \/ StoreTurn
    \/ StoreTurnFails
    \/ Return

----------------------------------------------------------------------------
(* Specifications *)

Init == ExecInit /\ BuildIdle /\ ResultsIdle /\ TextIdle /\ MemoryIdle /\ ChatIdle

Next ==
    \/ Begin
    \/ MissingTool
    \/ CallTool
    \/ ToolSucceeds
    \/ ToolRaises
    \/ CommitAndReturn

Spec == Init /\ [][Next]_vars

InitBuild == ExecIdle /\ BuildIdle /\ ResultsIdle /\ TextIdle /\ MemoryIdle /\ ChatIdle

NextBuild ==
    \/ BuildOutages
    \/ BuildHospitalShifts
    \/ BuildPerformances
    \/ BuildCinemas

NextConditions ==
    \/ BuildFuzzyConditions
    \/ BuildRegexConditions

SpecConditions == InitBuild /\ [][NextConditions]_vars

SpecBuild == InitBuild /\ [][NextBuild]_vars

InitResults == ExecIdle /\ BuildIdle /\ ResultsIdle /\ TextIdle /\ MemoryIdle /\ ChatIdle

NextResults ==
    \/ FormatOutages
    \/ FormatHospitalShifts
    \/ FormatPerformances
    \/ FormatScreenings
    \/ RunHistory
    \/ RunDbTool

SpecResults == InitResults /\ [][NextResults]_vars

InitText == ExecIdle /\ BuildIdle /\ ResultsIdle /\ TextIdle /\ MemoryIdle /\ ChatIdle

NextText ==
    \/ Normalize
    \/ NormalizeAgain

SpecText == InitText /\ [][NextText]_vars

InitMemory == ExecIdle /\ BuildIdle /\ ResultsIdle /\ TextIdle /\ MemoryIdle /\ ChatIdle

SpecMemory == InitMemory /\ [][NextMemory]_vars

InitChat == ExecNotCalled /\ BuildIdle /\ ResultsIdle /\ TextIdle /\ ChatInit

SpecChat == InitChat /\ [][NextChat]_vars

----------------------------------------------------------------------------
(* Properties of execute_tools_sequentially *)

Positions == 1..Len(tool_calls)

Registered(j) == tool_calls[j] \in TOOL_REGISTRY

\* the last position of the batch that carries the same tool name as j
LastOf(j) ==
    CHOOSE k \in Positions :
        /\ tool_calls[k] = tool_calls[j]
        /\ \A m \in Positions : tool_calls[m] = tool_calls[j] => m <= k

Range(seq) == {seq[k] : k \in 1..Len(seq)}

StrictlyIncreasing(seq) ==
    \A a, b \in 1..Len(seq) : a < b => seq[a] < seq[b]

\* C1: a call begins exactly one transaction and ends either Committed (no
\* tool raised during execution; the empty batch returns the empty map) or
\* RolledBack (some tool raised); never committed after an execution
\* failure and never both committed and rolled back.
C1_OneTransactionOneTerminalState ==
    /\ begins = (IF pc = "start" THEN 0 ELSE 1)
    /\ txn \in {"Idle", "InTransaction", "Committed", "RolledBack"}
    /\ (txn = "Idle") = (pc = "start")
    /\ commits + rollbacks <= 1
    /\ (commits = 1) = (txn = "Committed")
    /\ (rollbacks = 1) = (txn = "RolledBack")
    /\ failed_at # 0 => commits = 0
    /\ pc = "done" =>
         \/ txn = "Committed" /\ failed_at = 0
         \/ txn = "RolledBack" /\ failed_at # 0
    /\ pc # "done" => txn \in {"Idle", "InTransaction"}
    /\ (pc = "done" /\ tool_calls = <<>>) =>
         txn = "Committed" /\ outcome = [kind |-> "map", map |-> EmptyMap]

C1_Witness ==
    /\ pc = "done"
    /\ txn = "RolledBack"
    /\ failed_at = 2
    /\ Len(tool_calls) = 3

\* C2: once invocation K raised during execution, no later invocation is
\* attempted: neither its tool function nor its formatter is ever called.
C2_NothingAttemptedAfterFailure ==
    failed_at # 0 =>
        /\ \A j \in Range(tool_log) : j <= failed_at
        /\ \A j \in Range(fmt_log) : j < failed_at
        /\ pc = "done"

C2_Witness ==
    /\ failed_at = 1
    /\ Len(tool_calls) = 3
    /\ Registered(2) /\ Registered(3)
    /\ tool_log = <<1>>
    /\ pc = "done"

\* C3: when an invocation raises during execution the caller receives the
\* exception and no map: neither the earlier results nor the error entry of
\* the failing invocation are delivered.
C3_FailureDeliversNoMap ==
    /\ (pc = "done" /\ failed_at # 0) => outcome = [kind |-> "exception"]
    /\ outcome.kind = "map" => failed_at = 0
    /\ pc # "done" => outcome = NoOutcome

C3_Witness ==
    /\ pc = "done"
    /\ failed_at = 3
    /\ outcome.kind = "exception"
    /\ Cardinality(DOMAIN all_tool_results) = 3
    /\ all_tool_results[tool_calls[3]].msg = "Failed to execute"

\* C4: in a batch with one invocation of an unregistered tool in which no
\* invocation raises during execution, the unregistered one yields an error
\* entry, every other invocation is executed in list order, each other tool
\* name has its entry in the returned map next to the missing-tool entry,
\* and the transaction commits; the missing tool alone never ends the batch.
C4_MissingToolDoesNotAbort ==
    \A u \in Positions :
        (/\ ~Registered(u)
         /\ \A j \in Positions \ {u} : Registered(j)) =>
            /\ (idx > u) =>
                 /\ tool_calls[u] \in DOMAIN all_tool_results
                 /\ all_tool_results[tool_calls[u]] =
                        [kind |-> "error", msg |-> "not available", by |-> u]
            /\ (idx > u /\ failed_at = 0) => txn \in {"InTransaction", "Committed"}
            /\ (pc = "done" /\ failed_at = 0) =>
                 /\ txn = "Committed"
                 /\ outcome.kind = "map"
                 /\ outcome.map[tool_calls[u]].msg = "not available"
                 /\ tool_log = SelectSeq([k \in Positions |-> k], LAMBDA k : k # u)
                 /\ \A j \in Positions \ {u} :
                        /\ tool_calls[j] \in DOMAIN outcome.map
                        /\ outcome.map[tool_calls[j]].by = LastOf(j)
                        /\ outcome.map[tool_calls[j]].msg # "not available"

C4_Witness ==
    /\ pc = "done"
    /\ Len(tool_calls) = 3
    /\ ~Registered(2) /\ Registered(1) /\ Registered(3)
    /\ txn = "Committed"
    /\ tool_log = <<1, 3>>
    /\ Cardinality(DOMAIN outcome.map) = 3

\* C5: when a tool's query succeeds and its formatter raises, the entry
\* recorded for the tool is an error payload and not the raw rows, the batch
\* goes on with the remaining invocations, and (no tool raising during
\* execution) the call returns the map and the transaction commits.
C5_FormattingFailureIsPerTool ==
    \A j \in fmt_raised :
        /\ tool_calls[j] \in DOMAIN all_tool_results
        /\ all_tool_results[tool_calls[j]].by = j =>
               all_tool_results[tool_calls[j]] =
                   [kind |-> "error", msg |-> "Failed to format", by |-> j]
        /\ failed_at = 0 => txn \in {"InTransaction", "Committed"}
        /\ (pc = "loop" /\ failed_at = 0) => idx > j
        /\ (pc = "done" /\ failed_at = 0) =>
               /\ txn = "Committed"
               /\ outcome = [kind |-> "map", map |-> all_tool_results]
               /\ \A k \in Positions : (k > j /\ Registered(k)) => k \in Range(tool_log)

C5_Witness ==
    /\ pc = "done"
    /\ fmt_raised = {1}
    /\ Len(tool_calls) = 3
    /\ tool_log = <<1, 2, 3>>
    /\ txn = "Committed"
    /\ outcome.map[tool_calls[1]].msg = "Failed to format"

\* C6: the tool functions are invoked strictly in list order, each at most
\* once, invocation i+1 only after invocation i returned and its result was
\* recorded; never are two invocations of a batch in flight together.
C6_StrictlySequential ==
    /\ Cardinality(inflight) <= 1
    /\ inflight = (IF pc = "await_tool" THEN {idx} ELSE {})
    /\ StrictlyIncreasing(tool_log)
    /\ \A j \in Range(tool_log) :
           j \notin inflight => tool_calls[j] \in DOMAIN all_tool_results
    /\ \A j \in Positions :
           (j < idx /\ Registered(j)) => j \in Range(tool_log)
    /\ \A j \in Range(tool_log) : j <= idx /\ Registered(j)

C6_Witness ==
    /\ pc = "await_tool"
    /\ idx = 3
    /\ tool_log = <<1, 2, 3>>
    /\ inflight = {3}
    /\ Cardinality(DOMAIN all_tool_results) = 2

----------------------------------------------------------------------------
(* Properties of the statement builders *)

HasBuilt == built_tool # ""

\* the list-valued arguments of each tool: argument name, name of the
\* builder's local filter value, and whether the list holds dates
ListFields(tool) ==
    CASE tool = "outages" ->
           {<<"outage_dates", "date", TRUE>>, <<"locations", "location", FALSE>>,
            <<"affected_areas", "affected_areas", FALSE>>}
      [] tool = "hospital_shifts" ->
           {<<"hospital_shift_dates", "date", TRUE>>,
            <<"hospital_names", "name", FALSE>>,
            <<"specialties", "specialties", FALSE>>}
      [] tool = "performances" ->
           {<<"performance_dates", "date", TRUE>>,
            <<"performance_names", "name", FALSE>>,
            <<"performance_locations", "location", FALSE>>}
      [] tool = "cinemas" ->
           {<<"screening_dates", "date", TRUE>>, <<"movies", "movie", FALSE>>,
            <<"cinemas", "cinema", FALSE>>, <<"genres", "genre", FALSE>>}
      [] OTHER -> {}

DateFields(tool) == {f \in ListFields(tool) : f[3]}

\* the fields whose terms go through normalize_text
NormalizedTermFields(tool) ==
    {f \in ListFields(tool) : ~f[3] /\ f[1] # "cinemas"}

StatementOf(tool, a) ==
    CASE tool = "outages"         -> build_outages_statement(a)
      [] tool = "hospital_shifts" -> build_hospital_shifts_statement(a)
      [] tool = "performances"    -> build_performances_statement(a)
      [] tool = "cinemas"         -> build_cinemas_statement(a)

\* the entries of a date list that are neither "*" nor empty
Attempted(dates) == SelectSeq(dates, LAMBDA x : x # "*" /\ x # "")

Parsing(dates) == SelectSeq(Attempted(dates), LAMBDA x : strptime_date(x).ok)

ParsedDates(dates) ==
    [i \in 1..Len(Parsing(dates)) |-> strptime_date(Parsing(dates)[i]).value]

HasUnparseable(dates) == Len(Parsing(dates)) < Len(Attempted(dates))

\* the terms of a list that are neither "*" nor empty
UsedTerms(terms) == SelectSeq(terms, LAMBDA t : t # Star /\ t # <<>>)

\* the dates of the rows of the table a statement is run against
RowDates == {Date(2024, 3, 20), Date(2024, 3, 21), Date(2024, 3, 22)}

\* whether a row with date d satisfies a date filter
HoldsOnDate(filter, d) ==
    CASE filter.kind = "None"  -> TRUE
      [] filter.kind = "false" -> FALSE
      [] filter.kind = "in"    -> d \in Range(filter.values)

MatchingDates(filter) == {d \in RowDates : HoldsOnDate(filter, d)}

\* C7 as stated: an unparseable entry in a date list makes the date
\* predicate match zero rows, also next to valid dates.
C7_UnparseableDateMatchesNothing ==
    HasBuilt =>
        \A f \in DateFields(built_tool) :
            HasUnparseable(args[f[1]]) => MatchingDates(field_filters[f[2]]) = {}

\* C7 amended: with an unparseable entry in a date list, the date predicate
\* matches zero rows only when no entry of the list parses; when some
\* entries parse, the unparseable ones are skipped and the predicate is the
\* IN test over the parsed dates, first conjunct of the WHERE clause.
C7_UnparseableDateIsSkipped ==
    HasBuilt =>
        \A f \in DateFields(built_tool) :
            HasUnparseable(args[f[1]]) =>
                /\ stmt.where.kind = "and"
                /\ stmt.where.args[1] = field_filters[f[2]]
                /\ IF Parsing(args[f[1]]) = <<>>
                     THEN /\ field_filters[f[2]] = false
                          /\ MatchingDates(field_filters[f[2]]) = {}
                     ELSE /\ field_filters[f[2]].kind = "in"
                          /\ field_filters[f[2]].values = ParsedDates(args[f[1]])
                          /\ MatchingDates(field_filters[f[2]]) =
                                 RowDates \cap Range(ParsedDates(args[f[1]]))

C7_Witness ==
    /\ built_tool = "outages"
    /\ args.outage_dates = <<"2024-03-20", "not-a-date">>
    /\ MatchingDates(field_filters.date) = {Date(2024, 3, 20)}

OnlyWildcardOrEmpty(f, list) ==
    IF f[3] THEN \A i \in 1..Len(list) : list[i] \in {"*", ""}
    ELSE \A i \in 1..Len(list) : list[i] \in {Star, <<>>}

DefaultList(f) == IF f[3] THEN <<"*">> ELSE <<Star>>

\* C8: a list argument that is empty, is ["*"], or holds only "*" and
\* empty-string entries yields no predicate for its field (never an
\* always-false one), and the statement is the one built with the field at
\* its default.
C8_WildcardOnlyListIsNoFilter ==
    HasBuilt =>
        \A f \in ListFields(built_tool) :
            OnlyWildcardOrEmpty(f, args[f[1]]) =>
                /\ field_filters[f[2]] = None
                /\ stmt = StatementOf(built_tool,
                                      [args EXCEPT ![f[1]] = DefaultList(f)])
                /\ stmt.where.kind = "and" =>
                       Len(stmt.where.args) =
                           Cardinality({n \in DOMAIN field_filters :
                                            /\ n # f[2]
                                            /\ field_filters[n] # None})

C8_Witness ==
    /\ built_tool = "performances"
    /\ args.performance_dates = <<"*", "">>
    /\ args.performance_names = <<>>
    /\ args.performance_type = "musical"
    /\ Len(stmt.where.args) = 1

InvalidTime(t) == t # "*" /\ ~strptime_time(t).ok

\* a list field has an entry that is not "*", not empty, and fails to parse
HasFailingEntry(f, list) ==
    IF f[3] THEN HasUnparseable(list)
    ELSE \E i \in 1..Len(UsedTerms(list)) :
             normalize_text(UsedTerms(list)[i]) = <<>>

\* C9 as stated: an entry that fails to parse (a date, a time, a term that
\* normalizes to empty) always yields a predicate that matches nothing for
\* its field.
C9_FailingEntryMatchesNothing ==
    HasBuilt =>
        /\ \A f \in DateFields(built_tool) \cup NormalizedTermFields(built_tool) :
               HasFailingEntry(f, args[f[1]]) => field_filters[f[2]] = false
        /\ built_tool = "hospital_shifts" =>
               ((InvalidTime(args.hospital_shifts_start_time)
                 \/ InvalidTime(args.hospital_shifts_end_time)) =>
                    field_filters.time = false)

Conjuncts(filter) ==
    IF filter = None THEN <<>>
    ELSE IF filter.kind = "and" THEN filter.args ELSE <<filter>>

\* C9 amended: only a date list in which no attempted entry parses yields
\* the always-false predicate. A time that is not in HH:MM:SS form adds no
\* bound and leaves the other bound alone; a term that normalizes to empty
\* is dropped, and the field has no predicate when no term remains.
C9_OnlyAllInvalidDatesMatchNothing ==
    HasBuilt =>
        /\ \A f \in DateFields(built_tool) :
               (field_filters[f[2]] = false) =
                   (Attempted(args[f[1]]) # <<>> /\ Parsing(args[f[1]]) = <<>>)
        /\ \A n \in DOMAIN field_filters :
               field_filters[n] = false => n = "date"
        /\ \A f \in NormalizedTermFields(built_tool) :
               (\A i \in 1..Len(UsedTerms(args[f[1]])) :
                    normalize_text(UsedTerms(args[f[1]])[i]) = <<>>)
                   => field_filters[f[2]] = None
        /\ built_tool = "hospital_shifts" =>
               /\ InvalidTime(args.hospital_shifts_start_time) =>
                      \A i \in 1..Len(Conjuncts(field_filters.time)) :
                          Conjuncts(field_filters.time)[i].kind = "le"
               /\ InvalidTime(args.hospital_shifts_end_time) =>
                      \A i \in 1..Len(Conjuncts(field_filters.time)) :
                          Conjuncts(field_filters.time)[i].kind = "ge"
               /\ (/\ InvalidTime(args.hospital_shifts_start_time)
                   /\ strptime_time(args.hospital_shifts_end_time).ok) =>
                      field_filters.time =
                          [kind |-> "le",
                           col |-> "HospitalShift.hospital_shift_end_time",
                           value |-> args.hospital_shifts_end_time]

C9_Witness ==
    /\ built_tool = "hospital_shifts"
    /\ args.hospital_shifts_start_time = "8am"
    /\ args.hospital_shifts_end_time = "08:00:00"
    /\ args.hospital_names = <<<<" ">>>>
    /\ args.hospital_shift_dates = <<"2024-02-30">>
    /\ field_filters.date = false
    /\ field_filters.name = None
    /\ field_filters.time.kind = "le"

AllAscending(order) == \A i \in 1..Len(order) : order[i].dir = "asc"

DateColumn(tool) ==
    CASE tool = "outages"         -> "Outage.outage_date"
      [] tool = "hospital_shifts" -> "HospitalShift.hospital_shift_date"
      [] tool = "performances"    -> "Performance.performance_date"
      [] tool = "cinemas"         -> "Screening.screening_date"

\* C10 as stated: every tool's statement orders ascending by date and then
\* ascending by a secondary key.
C10_AllOrderedAscending ==
    HasBuilt =>
        /\ Len(stmt.order_by) >= 2
        /\ stmt.order_by[1].col = DateColumn(built_tool)
        /\ AllAscending(stmt.order_by)

\* C10 amended: hospital shifts, performances and screenings are ordered
\* ascending by date and then ascending by hospital name, by performance
\* name, and by cinema, movie and (with halls_and_screening_times) screening
\* time; outages are ordered descending by date and then descending by
\* outage start, whatever the filter arguments.
C10_OrderingPerTool ==
    HasBuilt =>
        /\ Len(stmt.order_by) >= 2
        /\ stmt.order_by[1].col = DateColumn(built_tool)
        /\ built_tool = "outages" =>
               stmt.order_by = <<Desc("Outage.outage_date"),
                                 Desc("Outage.outage_start")>>
        /\ built_tool = "hospital_shifts" =>
               stmt.order_by = <<Asc("HospitalShift.hospital_shift_date"),
                                 Asc("HospitalShift.hospital_name")>>
        /\ built_tool = "performances" =>
               stmt.order_by = <<Asc("Performance.performance_date"),
                                 Asc("Performance.performance_name")>>
        /\ built_tool = "cinemas" =>
               /\ AllAscending(stmt.order_by)
               /\ [i \in 1..Len(stmt.order_by) |-> stmt.order_by[i].col] =
                      IF args.halls_and_screening_times
                        THEN <<"Screening.screening_date", "Cinema.cinema_name",
                               "Movie.movie_name", "Screening.screening_time">>
                        ELSE <<"Screening.screening_date", "Cinema.cinema_name",
                               "Movie.movie_name">>

C10_Witness ==
    /\ built_tool = "outages"
    /\ args.outage_dates = <<"2024-03-20", "2024-3-21">>
    /\ args.outage_type = "power"
    /\ stmt.where.kind = "and"
    /\ ~AllAscending(stmt.order_by)

----------------------------------------------------------------------------
(* Properties of the result formatters *)

Formatters ==
    {"format_outages", "format_hospital_shifts", "format_performances",
     "format_screenings"}

HasFormatted == fmt_tool \in Formatters

\* a precedes b in the calendar
CalendarLess(a, b) ==
    \/ a.y < b.y
    \/ a.y = b.y /\ a.m < b.m
    \/ a.y = b.y /\ a.m = b.m /\ a.d < b.d

\* the date of the rows grouped under a section
SectionDate(section) == section.items[1].date

\* C11: in the text of every formatter the date sections appear in ascending
\* calendar-date order, whatever the order and the dates of the input rows.
C11_SectionsInCalendarOrder ==
    (HasFormatted /\ fmt_output.kind = "text") =>
        \A i, j \in 1..Len(fmt_output.sections) :
            (/\ i < j
             /\ SectionDate(fmt_output.sections[i]) # NoDate
             /\ SectionDate(fmt_output.sections[j]) # NoDate)
            => CalendarLess(SectionDate(fmt_output.sections[i]),
                            SectionDate(fmt_output.sections[j]))

\* the row is of the shape the formatter's tool returns
WellFormedFor(tool, input, row) ==
    CASE tool = "format_performances" -> row.shape = "tuple" /\ row.len = 1
      [] tool = "format_screenings"   ->
            /\ row.shape = "tuple"
            /\ row.len = (IF input.halls_and_screening_times THEN 7 ELSE 5)
      [] OTHER                        -> row.shape = "entity"

MalformedPositions ==
    {i \in 1..Len(fmt_input.rows) :
        ~WellFormedFor(fmt_tool, fmt_input, fmt_input.rows[i])}

RECURSIVE SumLen(_)
SumLen(seqs) == IF seqs = <<>> THEN 0 ELSE Len(Head(seqs)) + SumLen(Tail(seqs))

\* the number of rows rendered under the sections of a text
RenderedRows(text) ==
    SumLen([k \in 1..Len(text.sections) |-> text.sections[k].items])

\* C12: every formatter tolerates a malformed row: it does not raise, the
\* malformed rows are skipped and logged, and the well-formed rows are
\* still rendered.
C12_MalformedRowIsSkipped ==
    (HasFormatted /\ MalformedPositions # {}) =>
        /\ fmt_output.kind = "text"
        /\ fmt_output.skipped = MalformedPositions
        /\ (fmt_tool # "format_screenings" =>
                RenderedRows(fmt_output) =
                    Len(fmt_input.rows) - Cardinality(MalformedPositions))

NotFoundMessage(tool) ==
    CASE tool = "format_outages"         -> OUTAGES_NOT_FOUND
      [] tool = "format_hospital_shifts" -> HOSPITAL_SHIFTS_NOT_FOUND
      [] tool = "format_performances"    -> PERFORMANCES_NOT_FOUND
      [] tool = "format_screenings"      -> SCREENINGS_NOT_FOUND

\* C13: given an empty row list, each of the four formatters returns its own
\* fixed "nothing found" message and does not raise.
C13_EmptyListGivesNotFoundMessage ==
    (HasFormatted /\ fmt_input.rows = <<>>) =>
        fmt_output = NotFound(NotFoundMessage(fmt_tool))

C13_Witness ==
    /\ fmt_tool = "format_screenings"
    /\ fmt_input.rows = <<>>
    /\ fmt_input.halls_and_screening_times
    /\ fmt_output.kind = "not_found"
    /\ fmt_output.msg = SCREENINGS_NOT_FOUND

----------------------------------------------------------------------------
(* Properties of normalize_text *)

\* C14: for every string and for None, normalizing the result of
\* normalize_text gives that result again.
C14_NormalizeIsIdempotent ==
    norm_again # NoText => norm_again = norm_output

\* a string that normalization changes, normalized a second time
C14_Witness ==
    /\ norm_again # NoText
    /\ norm_input = <<"!", " ", "B">>
    /\ norm_output = <<"b">>
    /\ norm_again = <<"b">>

----------------------------------------------------------------------------
(* Properties of the history tool *)

HasText(corpus) == corpus # NoneStr /\ corpus # ""

\* C15: for every search_query the history tool returns the whole corpus
\* unchanged, or the fixed "could not retrieve" message when the corpus is
\* empty or missing; it never returns other text, never raises and issues
\* no statement on the database session.
C15_HistoryReturnsCorpusOrMessage ==
    fmt_tool = "run_history" =>
        /\ fmt_output.kind = "str"
        /\ HasText(fmt_input.corpus) => fmt_output.text = fmt_input.corpus
        /\ ~HasText(fmt_input.corpus) => fmt_output.text = HISTORY_UNAVAILABLE
        /\ db_executes = 0

C15_Witness ==
    /\ fmt_tool = "run_history"
    /\ fmt_input.search_query = "White Tower"
    /\ HasText(fmt_input.corpus)
    /\ fmt_output.text = fmt_input.corpus
    /\ db_executes = 0

----------------------------------------------------------------------------
(* Properties of process_chat_message *)

Calls(name) == Cardinality({i \in 1..Len(call_log) : call_log[i] = name})

\* the position of the only call of name in call_log
PositionOf(name) == CHOOSE i \in 1..Len(call_log) : call_log[i] = name

Replied == chat_pc = "done" /\ chat_result.kind = "reply"

\* the two entries of the turn of this call
TurnEntries ==
    <<json_dumps([type |-> "user",
                  message |-> user_query_preprocess(chat_args.user_message)]),
      json_dumps([type |-> "assistant", message |-> bot_reply])>>

\* C16: in one call of process_chat_message a direct response means that
\* neither the tool executor nor the response synthesizer is called; tool
\* invocations mean that the executor has run to completion before the
\* synthesizer is called, and the synthesizer is given the executor's result
\* map; in both cases add_chat_turn is called exactly once, after the reply
\* has been determined, so that the turn is stored once (the store holds the
\* earlier entries followed by the two entries of the turn; a store that
\* fails holds what it held), and the session id returned is the one passed
\* in, or a fresh one when none was passed.
C16_OneTurnInOrder ==
    /\ Calls("get_response_with_db_info_grounding") > 0 =>
          /\ pc = "done"
          /\ outcome.kind = "map"
          /\ tool_results = outcome
          /\ Calls("execute_tools_sequentially") = 1
          /\ PositionOf("execute_tools_sequentially")
                < PositionOf("get_response_with_db_info_grounding")
    /\ Replied =>
          /\ Truthy(decision.direct_response) =>
                /\ Calls("execute_tools_sequentially") = 0
                /\ Calls("get_response_with_db_info_grounding") = 0
                /\ pc = "not_called"
                /\ bot_reply = decision.direct_response
          /\ ~Truthy(decision.direct_response) =>
                /\ Calls("execute_tools_sequentially") = 1
                /\ Calls("get_response_with_db_info_grounding") = 1
                /\ tool_calls = decision.tools
          /\ Calls("add_chat_turn") = 1
          /\ call_log[Len(call_log)] = "add_chat_turn"
          /\ appended = (IF save_failed THEN stored_before
                         ELSE stored_before \o TurnEntries)
          /\ chat_result.bot_reply = bot_reply
          /\ chat_result.session_id =
                (IF chat_args.session_id = NoSession THEN FreshSessionId
                 ELSE chat_args.session_id)

\* a reply after two tool invocations in a new session
C16_Witness ==
    /\ Replied
    /\ chat_args.session_id = NoSession
    /\ decision.tools = <<"outages", "history">>
    /\ commits = 1
    /\ DOMAIN tool_results.map = {"outages", "history"}
    /\ ~save_failed
    /\ redis_list = TurnEntries
    /\ chat_result.session_id = FreshSessionId

\* C17: process_chat_message returns the reply and the session id when
\* loading the history fails, in which case it goes on with an empty
\* history, and when saving the turn fails; no failure of the history store
\* reaches the caller.
C17_HistoryStoreFailuresAreContained ==
    /\ load_failed => history = <<>>
    /\ chat_pc = "done" =>
          \/ /\ chat_result.kind = "reply"
             /\ chat_result.bot_reply = bot_reply
             /\ Truthy(chat_result.bot_reply)
             /\ chat_result.session_id = session_id
          \/ /\ chat_result.kind = "exception"
             /\ chat_result.raised_by \in
                   {"search_for_tools", "execute_tools_sequentially:raised",
                    "get_response_with_db_info_grounding"}
             /\ ~save_failed

\* loading and saving both fail and the reply is returned all the same
C17_Witness ==
    /\ Replied
    /\ load_failed
    /\ save_failed
    /\ stored_before # <<>>
    /\ redis_list = stored_before
    /\ chat_result.session_id = "session-1"

----------------------------------------------------------------------------
(* Properties of the conversation-history store *)

Min(a, b) == IF a < b THEN a ELSE b

\* the last k elements of seq
Last(seq, k) == SubSeq(seq, Len(seq) - k + 1, Len(seq))

\* the entries appended to the key since it last came into being
Live == SubSeq(appended, live_from + 1, Len(appended))

\* C18: after any sequence of add_chat_turn calls on one session the
\* session's list holds at most 2 * REDIS_MAX_HISTORY_LENGTH entries, and
\* they are the most recently appended entries in the order of their
\* appending, the user entry of a turn directly before its assistant entry.
C18_ListHoldsMostRecentEntries ==
    /\ Len(redis_list) <= 2 * REDIS_MAX_HISTORY_LENGTH
    /\ redis_list = Last(Live, Min(Len(Live), 2 * REDIS_MAX_HISTORY_LENGTH))
    /\ Len(redis_list) % 2 = 0
    /\ \A i \in 1..Len(redis_list) :
          i % 2 = 1 =>
             /\ json_loads(redis_list[i]).type = "user"
             /\ json_loads(redis_list[i + 1]).type = "assistant"
             /\ json_loads(redis_list[i + 1]).message
                   = json_loads(redis_list[i]).message

\* more turns were appended than the list keeps: the oldest are gone
C18_Witness ==
    /\ live_from = 0
    /\ Len(appended) > 2 * REDIS_MAX_HISTORY_LENGTH
    /\ Len(redis_list) = 2 * REDIS_MAX_HISTORY_LENGTH
    /\ redis_list[1] # appended[1]
    /\ redis_list[Len(redis_list)] = appended[Len(appended)]

\* C19: get_chat_history returns the most recent limit messages of the
\* session, all of them when the session holds fewer, and the newest message
\* comes first.
C19_HistoryIsNewestFirst ==
    history_read.kind = "read" =>
        LET list == history_read.of
            k    == Min(history_read.limit, Len(list))
        IN  history_read.history
               = [i \in 1..k |-> json_loads(list[Len(list) + 1 - i])]

----------------------------------------------------------------------------
(* The date-list builders, case by case *)

\* C20: each of the four date-list builders returns no predicate when the
\* list is empty, is ["*"], or has no entry other than "*" and empty ones;
\* the IN predicate over exactly the entries that parsed, in list order,
\* when at least one parsed; and the always-false predicate when an entry
\* was attempted and none parsed.  "*" and empty entries next to valid dates
\* do not change the predicate.
C20_DateListBuilderCases ==
    HasBuilt =>
        \A f \in DateFields(built_tool) :
            LET dates  == args[f[1]]
                filter == field_filters[f[2]]
            IN  /\ Attempted(dates) = <<>> => filter = None
                /\ Parsing(dates) # <<>> =>
                      /\ filter = [kind |-> "in", col |-> DateColumn(built_tool),
                                   values |-> ParsedDates(dates)]
                      /\ filter = date_list_filter(DateColumn(built_tool),
                                                   Parsing(dates))
                      /\ MatchingDates(filter)
                            = RowDates \cap Range(ParsedDates(dates))
                /\ (Attempted(dates) # <<>> /\ Parsing(dates) = <<>>) =>
                      /\ filter = false
                      /\ MatchingDates(filter) = {}

\* a valid date after a wildcard: the predicate is the IN test over that date
C20_Witness ==
    /\ built_tool = "cinemas"
    /\ args.screening_dates = <<"*", "2024-3-21">>
    /\ field_filters.date = [kind |-> "in", col |-> "Screening.screening_date",
                             values |-> <<Date(2024, 3, 21)>>]
    /\ stmt.where.args[1] = field_filters.date

----------------------------------------------------------------------------
(* The statement assemblers *)

\* the field builders of each assembler, in the order they are called
FieldOrder(tool) ==
    CASE tool = "outages"         -> <<"date", "type", "location", "affected_areas">>
      [] tool = "hospital_shifts" -> <<"date", "name", "time", "specialties">>
      [] tool = "performances"    -> <<"date", "name", "location", "type">>
      [] tool = "cinemas"         -> <<"date", "movie", "cinema", "genre", "year">>

\* the predicates the field builders returned, None ones left out
ReturnedPredicates ==
    LET order == FieldOrder(built_tool)
        all   == [i \in 1..Len(order) |-> field_filters[order[i]]]
    IN  SelectSeq(all, LAMBDA p : p # None)

\* C21: each statement assembler applies exactly the AND of the predicates
\* its field builders returned that are not None, in the order of the
\* builders, and applies no WHERE clause at all when every field builder
\* returned None.
C21_WhereIsConjunctionOfReturnedPredicates ==
    HasBuilt =>
        /\ DOMAIN field_filters = Range(FieldOrder(built_tool))
        /\ IF ReturnedPredicates = <<>>
             THEN stmt.where = None
             ELSE /\ stmt.where.kind = "and"
                  /\ stmt.where.args = ReturnedPredicates

\* two of the four field builders of the performances assembler return a
\* predicate
C21_Witness ==
    /\ built_tool = "performances"
    /\ args.performance_dates = <<"2024-03-20">>
    /\ args.performance_type = "musical"
    /\ field_filters.name = None
    /\ field_filters.location = None
    /\ Len(stmt.where.args) = 2
    /\ stmt.where.args[2].kind = "eq"

SummaryColumns ==
    <<"Screening.screening_date", "Movie.movie_name", "Cinema.cinema_name",
      "Movie.genre", "Movie.year">>

OrderColumns == [i \in 1..Len(stmt.order_by) |-> stmt.order_by[i].col]

\* C22: build_cinemas_statement deduplicates the rows exactly when
\* halls_and_screening_times is false, and then it projects the summary
\* columns, without screening time and hall; when the flag is true it
\* projects time and hall as well, does not deduplicate, and orders by
\* screening time after date, cinema and movie.
C22_DistinctExactlyForSummary ==
    built_tool = "cinemas" =>
        /\ stmt.distinct = ~args.halls_and_screening_times
        /\ ~args.halls_and_screening_times =>
              /\ stmt.select = SummaryColumns
              /\ "Screening.screening_time" \notin Range(stmt.select)
              /\ "Hall.hall_name" \notin Range(stmt.select)
              /\ OrderColumns = <<"Screening.screening_date", "Cinema.cinema_name",
                                  "Movie.movie_name">>
        /\ args.halls_and_screening_times =>
              /\ Range(stmt.select) = Range(SummaryColumns)
                     \cup {"Screening.screening_time", "Hall.hall_name"}
              /\ Len(stmt.select) = 7
              /\ OrderColumns = <<"Screening.screening_date", "Cinema.cinema_name",
                                  "Movie.movie_name", "Screening.screening_time">>
        /\ \A i \in 1..Len(stmt.order_by) : stmt.order_by[i].dir = "asc"

\* the detailed projection with a filter on the year
C22_Witness ==
    /\ built_tool = "cinemas"
    /\ args.halls_and_screening_times
    /\ args.year = 1999
    /\ ~stmt.distinct
    /\ Len(stmt.order_by) = 4

----------------------------------------------------------------------------
(* The condition builders *)

\* the terms that are not "*", not empty and do not normalize to empty
RemainingTerms(terms) ==
    SelectSeq(terms, LAMBDA t : t # Star /\ t # <<>> /\ normalize_text(t) # <<>>)

\* the words of a normalized term between word boundaries, any text between
\* two words
WordBoundaryPattern(term) ==
    LET words == Split(term)
    IN  <<"\\m">>
        \o Join(<<"\\M.*\\m">>, [k \in 1..Len(words) |-> re_escape(words[k])])
        \o <<"\\M">>

\* C24: build_fuzzy_conditions and build_regex_conditions drop every term
\* that is "*", is empty or normalizes to empty, and return exactly one
\* predicate for each remaining term, in the order of the input and built
\* from the normalized term: the similarity test above the threshold, and
\* the case-insensitive match of the term's words.  The result is the empty
\* list when no term remains.
C24_OneConditionPerRemainingTerm ==
    LET remaining  == RemainingTerms(args.terms)
        conditions == field_filters.conditions
    IN  /\ built_tool = "build_fuzzy_conditions" =>
              conditions =
                  [i \in 1..Len(remaining) |->
                      [kind |-> "similarity_gt", col |-> args.column,
                       term |-> normalize_text(remaining[i]),
                       threshold |-> args.threshold]]
        /\ built_tool = "build_regex_conditions" =>
              conditions =
                  [i \in 1..Len(remaining) |->
                      [kind |-> "regex_imatch", col |-> args.column,
                       pattern |-> WordBoundaryPattern(normalize_text(remaining[i]))]]
        /\ (HasBuilt /\ remaining = <<>>) => conditions = <<>>

\* a wildcard, a blank term and a term with punctuation: one condition, for
\* the normalized third term
C24_Witness ==
    /\ built_tool = "build_regex_conditions"
    /\ args.terms = <<Star, <<" ">>, <<"B", "!">>>>
    /\ Len(field_filters.conditions) = 1
    /\ field_filters.conditions[1].pattern = <<"\\m", "b", "\\M">>

----------------------------------------------------------------------------
(* The hospital name filter *)

HospitalNameColumn == "HospitalShift.normalized_hospital_name"

RegexConditionsFor(terms) ==
    [i \in 1..Len(terms) |->
        [kind |-> "regex_imatch", col |-> HospitalNameColumn,
         pattern |-> WordBoundaryPattern(normalize_text(terms[i]))]]

FuzzyConditionsFor(terms) ==
    [i \in 1..Len(terms) |->
        [kind |-> "similarity_gt", col |-> HospitalNameColumn,
         term |-> normalize_text(terms[i]), threshold |-> FUZZY_THRESHOLD]]

OtherHospitalFieldsAtDefault ==
    /\ args.hospital_shift_dates = <<"*">>
    /\ args.hospital_shifts_start_time = "*"
    /\ args.hospital_shifts_end_time = "*"
    /\ args.specialties = <<Star>>

\* C25: when hospital_names has at least one usable term, the hospital name
\* filter is the OR of the regex conditions followed by the fuzzy conditions
\* built for the usable terms; with hospital_shift_dates at ["*"] and the
\* other fields at their defaults it is the only predicate of the WHERE
\* clause; when the names are only "*", empty, or the list is empty, the
\* name filter is absent.
C25_HospitalNameFilterIsRegexOrFuzzy ==
    built_tool = "hospital_shifts" =>
        LET usable == RemainingTerms(args.hospital_names)
        IN  /\ usable # <<>> =>
                  /\ field_filters.name =
                         or_(RegexConditionsFor(usable) \o FuzzyConditionsFor(usable))
                  /\ OtherHospitalFieldsAtDefault =>
                         stmt.where = and_(<<field_filters.name>>)
            /\ usable = <<>> => field_filters.name = None
            /\ (usable = <<>> /\ OtherHospitalFieldsAtDefault) => stmt.where = None

\* one name with punctuation and everything else at its default
C25_Witness ==
    /\ built_tool = "hospital_shifts"
    /\ args.hospital_names = <<<<"B", "!">>>>
    /\ OtherHospitalFieldsAtDefault
    /\ Len(field_filters.name.args) = 2
    /\ field_filters.name.args[1].kind = "regex_imatch"
    /\ field_filters.name.args[2].kind = "similarity_gt"
    /\ stmt.where.args = <<field_filters.name>>

----------------------------------------------------------------------------
(* The hospital-shift time filter *)

\* a time argument that is not "*" and is accepted by strptime("%H:%M:%S")
ValidTime(t) == t # "*" /\ strptime_time(t).ok

StartBound ==
    [kind |-> "ge", col |-> "HospitalShift.hospital_shift_start_time",
     value |-> args.hospital_shifts_start_time]

EndBound ==
    [kind |-> "le", col |-> "HospitalShift.hospital_shift_end_time",
     value |-> args.hospital_shifts_end_time]

\* C26: the hospital-shift time filter is 'start_time >= start' for a start
\* value in HH:MM:SS form and 'end_time <= end' for an end value in that
\* form, the AND of the two when both are given; a value that is "*" (the
\* value of an argument left out) adds no bound, and a value in another
\* format is skipped: the statement is built all the same and the other
\* bound is what it is without it.
C26_TimeBoundsAreInclusiveAndIndependent ==
    built_tool = "hospital_shifts" =>
        LET start_ok == ValidTime(args.hospital_shifts_start_time)
            end_ok   == ValidTime(args.hospital_shifts_end_time)
        IN  /\ field_filters.time =
                   (IF start_ok /\ end_ok THEN and_(<<StartBound, EndBound>>)
                    ELSE IF start_ok THEN StartBound
                    ELSE IF end_ok THEN EndBound
                    ELSE None)
            /\ stmt.select = <<"HospitalShift">>
            /\ field_filters.time # false

\* both bounds are given, one of them with unpadded fields
C26_Witness ==
    /\ built_tool = "hospital_shifts"
    /\ args.hospital_shifts_start_time = "08:00:00"
    /\ args.hospital_shifts_end_time = "8:0:0"
    /\ field_filters.time = and_(<<StartBound, EndBound>>)
    /\ stmt.where.kind = "and"

----------------------------------------------------------------------------
(* The cinema filter *)

\* the cinema entries other than "*" and the empty string
CinemaEntries == SelectSeq(args.cinemas, LAMBDA c : c # Star /\ c # <<>>)

SimilarityTest(name) ==
    [kind |-> "similarity_gt", col |-> "Cinema.cinema_name", term |-> name,
     threshold |-> FUZZY_THRESHOLD]

ContainmentTest(name) ==
    [kind |-> "ilike", col |-> "Cinema.cinema_name",
     pattern |-> <<"%">> \o name \o <<"%">>]

\* C27: for every cinema entry other than "*" and the empty string, an
\* entry of whitespace included, the cinema filter has one condition, the
\* OR of the similarity test above the threshold and the case-insensitive
\* containment test on the cinema name, both on the entry as given; the
\* filter is the OR of these conditions in list order, and it is absent
\* when no entry remains.
C27_CinemaFilterIsSimilarityOrContainment ==
    built_tool = "cinemas" =>
        IF CinemaEntries = <<>>
          THEN field_filters.cinema = None
          ELSE /\ field_filters.cinema.kind = "or"
               /\ field_filters.cinema.args =
                      [i \in 1..Len(CinemaEntries) |->
                          or_(<<SimilarityTest(CinemaEntries[i]),
                                ContainmentTest(CinemaEntries[i])>>)]

\* an entry of one space next to a wildcard: one condition, on the space
C27_Witness ==
    /\ built_tool = "cinemas"
    /\ args.cinemas = <<<<" ">>, Star>>
    /\ Len(field_filters.cinema.args) = 1
    /\ field_filters.cinema.args[1].args[2].pattern = <<"%", " ", "%">>
    /\ stmt.where.args = <<field_filters.cinema>>

----------------------------------------------------------------------------
(* The result map of the executor *)

\* the invocations whose result has been stored
Stored ==
    1..(idx - 1) \cup (IF failed_at # 0 THEN {failed_at} ELSE {})

\* the last stored invocation of a tool name
LastStoredOf(name) ==
    CHOOSE i \in Stored :
        /\ tool_calls[i] = name
        /\ \A j \in Stored : tool_calls[j] = name => j <= i

\* the invocations of registered tools, in batch order
RECURSIVE RegisteredFrom(_)
RegisteredFrom(i) ==
    IF i > Len(tool_calls) THEN <<>>
    ELSE (IF tool_calls[i] \in TOOL_REGISTRY THEN <<i>> ELSE <<>>)
         \o RegisteredFrom(i + 1)

\* C28: the result map is keyed by tool name only.  When a batch has several
\* invocations of one tool name, each of them is executed, in batch order,
\* and the map holds one entry for the name, with the outcome of the last
\* of them; the returned map has one entry for each distinct tool name of
\* the batch.
C28_MapKeyedByToolName ==
    /\ pc # "not_called" =>
          /\ DOMAIN all_tool_results = {tool_calls[i] : i \in Stored}
          /\ \A name \in DOMAIN all_tool_results :
                 all_tool_results[name].by = LastStoredOf(name)
    /\ outcome.kind = "map" =>
          /\ outcome.map = all_tool_results
          /\ DOMAIN outcome.map = Range(tool_calls)
          /\ Cardinality(DOMAIN outcome.map) <= Len(tool_calls)
          /\ tool_log = RegisteredFrom(1)
          /\ \A name \in DOMAIN outcome.map :
                 /\ tool_calls[outcome.map[name].by] = name
                 /\ \A i \in 1..Len(tool_calls) :
                        tool_calls[i] = name => i <= outcome.map[name].by

\* outages is invoked first and third: its first result could not be
\* formatted, and the map returned holds the text of the third
C28_Witness ==
    /\ outcome.kind = "map"
    /\ tool_calls = <<"outages", "history", "outages">>
    /\ tool_log = <<1, 2, 3>>
    /\ 1 \in fmt_raised
    /\ DOMAIN outcome.map = {"outages", "history"}
    /\ outcome.map["outages"] = [kind |-> "formatted", msg |-> "", by |-> 3]

----------------------------------------------------------------------------
(* The executor raising inside process_chat_message *)

ExecutorRaised == chat_pc # "not_called" /\ outcome.kind = "exception"

\* C29: when the tool executor raises during process_chat_message, the
\* exception leaves process_chat_message, the response synthesizer is not
\* called and add_chat_turn is not called for the message: the session's
\* list is what it was before the call.
C29_ExecutorExceptionPropagates ==
    ExecutorRaised =>
        /\ chat_pc \in {"executing", "done"}
        /\ Calls("get_response_with_db_info_grounding") = 0
        /\ Calls("add_chat_turn") = 0
        /\ bot_reply = NoneStr
        /\ redis_list = stored_before
        /\ appended = stored_before
        /\ chat_pc = "done" =>
              chat_result = [kind |-> "exception",
                             raised_by |-> "execute_tools_sequentially:raised"]

\* the second of two tools raises in a session that has a stored turn
C29_Witness ==
    /\ chat_pc = "done"
    /\ chat_result.kind = "exception"
    /\ chat_result.raised_by = "execute_tools_sequentially:raised"
    /\ failed_at = 2
    /\ rollbacks = 1
    /\ Len(stored_before) = 2
    /\ redis_list = stored_before

----------------------------------------------------------------------------
(* Concurrent add_chat_turn calls *)

StoredEntry(i) == json_loads(redis_list[i])

\* C30: under any interleaving of concurrent add_chat_turn calls on one
\* session, the two appends, the trim and the expiry of a call take effect
\* in one step: in the stored list the user entry of a turn is directly
\* followed by the assistant entry of the same turn, no entry of another
\* turn between them; the list has even length, is never longer than the
\* trim allows, and a list that is not empty has the expiry time set.
C30_TurnIsStoredAtomically ==
    /\ Len(redis_list) % 2 = 0
    /\ \A i \in 1..Len(redis_list) :
          /\ StoredEntry(i).type = "user" =>
                /\ i < Len(redis_list)
                /\ StoredEntry(i + 1) = [type |-> "assistant", message |-> StoredEntry(i).message]
          /\ StoredEntry(i).type = "assistant" =>
                /\ i > 1
                /\ StoredEntry(i - 1) = [type |-> "user", message |-> StoredEntry(i).message]
    /\ Len(redis_list) <= 2 * REDIS_MAX_HISTORY_LENGTH
    /\ redis_list # <<>> => redis_ttl = REDIS_HISTORY_TTL
    /\ \A c \in Callers :
          mem_pc[c] # "idle" =>
              /\ user_entry(c) \notin Range(redis_list)
              /\ bot_entry(c) \notin Range(redis_list)

\* two calls are in progress at once: the first has queued its whole
\* pipeline, the second was started later and its turn is stored already
C30_Witness ==
    /\ mem_pc[1] = "expire_queued"
    /\ turn_of[1] = 1
    /\ turn_of[2] = 2
    /\ mem_pc[2] = "idle"
    /\ Len(pipe[1]) = 4
    /\ redis_list = <<json_dumps([type |-> "user", message |-> 2]),
                      json_dumps([type |-> "assistant", message |-> 2])>>

====
